---------------------------- MODULE Spec2Model ----------------------------
(***************************************************************************)
(* whisper-flow: the hotkey state machine (hotkey.py), the recording       *)
(* session controller of the front-ends (main.py run_cli, ui/menubar.py,   *)
(* ui/overlay.py, ui/overlay_win.py), the audio recorder (recorder.py),    *)
(* the text inserter (typer.py), the rule-based editor (editor.py) and the *)
(* processing pipeline of the front-ends.                                  *)
(*                                                                         *)
(* Time is counted in tenths of a second.  Every signal emitted by the     *)
(* hotkey handler is a threading.Thread; a thread is a record in `threads` *)
(* and runs one statement of its handler per step, so every interleaving   *)
(* the interpreter can produce between two statements is a behaviour.      *)
(***************************************************************************)
EXTENDS Integers, Sequences, FiniteSets, TLC

VARIABLES
    \* HotkeyHandler (hotkey.py)
    config,             \* self.config: [modifier1, modifier2, key, mode]
    pressed_keys,       \* self._pressed_keys
    hotkey_active,      \* self._hotkey_active
    is_toggled,         \* self._is_toggled
    last_tap_time,      \* self._last_tap_time
    in_continuous_mode, \* self._in_continuous_mode
    now,                \* time.time()
    \* session controller (run_cli closure / WhisperFlowApp / OverlayWindow)
    frontend,           \* which front-end owns the handlers; "stub": no-op callbacks
    is_recording,       \* is_recording / self._is_recording
    is_processing,      \* is_processing / self._is_processing
    threads,            \* the live threading.Thread objects, in start order
    \* AudioRecorder (recorder.py)
    rec_is_recording,   \* AudioRecorder._is_recording
    stream,             \* AudioRecorder._stream is not None
    leaked,             \* an open stream has lost its reference: nothing closes it
    queued,             \* AudioRecorder._audio_queue holds a chunk
    \* TextTyper (typer.py): one insertion
    ty_pc,              \* position inside type_text / _paste_text
    ty_text,            \* the text argument (its length)
    clipboard,          \* the system clipboard
    original_clipboard, \* the local original_clipboard
    ty_typed,           \* characters typed so far by _type_text
    ty_log,             \* clipboard and paste calls made so far, in order
    ty_raised,          \* an exception propagates out of the insertion
    ty_method,          \* the `method` argument of the call
    \* history variables: what an observer of the key events has seen
    lastEv,             \* kind of the latest step
    emitted,            \* signal emitted by the latest key event
    lastSig,            \* latest signal emitted so far
    lastEdgeTime,       \* time of the latest press that completed the combination
    gesture,            \* what the latest such press was: single, latch or stop
    releasedAll,        \* every key has been up since the latest such press
    \* HotkeyHandler life cycle (start / stop / update_config and their callers)
    listener,           \* self._listener is not None: key events are delivered
    lc_pc,              \* position of the caller inside a configuration change
    lc_new,             \* the configuration the caller is installing
    lastEvConfig,       \* history: the configuration that classified the latest event
    lc_fresh,           \* history: no press has completed the combination since start()
    \* one run of the processing pipeline (_process_recording), stage by stage
    pl_pc,              \* position inside the try body
    pl_settings,        \* the enabled flags and the editor in use
    pl_faults,          \* the capabilities that raise when called
    pl_audio,           \* what recorder.stop() returns: "" or "wav"
    pl_transcript,      \* what the transcriber returns
    pl_text,            \* the local `text`
    pl_calls,           \* the calls made so far, in order, with their arguments
    pl_error,           \* the except clause has run
    \* BasicEditor.edit applied once and twice
    ed_t,               \* the text given
    ed_once,            \* edit(t)
    ed_twice,           \* edit(edit(t))
    ed_pc,
    \* AudioRecorder: one recording, its callback against stop()
    rq_pc,              \* position inside stop()
    rq_is_recording,    \* self._is_recording
    rq_queue,           \* self._audio_queue, oldest chunk first
    rq_cb,              \* the chunk a running callback holds, 0 when none runs
    rq_cb_pc,           \* position of that callback
    rq_arrived,         \* chunks handed to the callback so far
    rq_before,          \* history: chunks handed to the callback before the stop signal
    rq_chunks,          \* audio_chunks, the list stop() builds its result from
    \* create_editor and one edit() call of the editor it returns
    ai_cfg,             \* settings.ai_editor and whether the provider's API key is set
    ai_kind,            \* the class create_editor returned, "" before it ran
    ai_text,            \* the text given to edit()
    ai_backend,         \* what the HTTP request of this call does
    ai_result,          \* how edit() ended and what it returned
    ai_pc

hkVars  == <<config, pressed_keys, hotkey_active, is_toggled, last_tap_time,
             in_continuous_mode, now>>
ctlVars == <<frontend, is_recording, is_processing, threads>>
recVars == <<rec_is_recording, stream, leaked, queued>>
tyVars  == <<ty_pc, ty_text, clipboard, original_clipboard, ty_typed, ty_log,
             ty_raised, ty_method>>
obsVars == <<lastEv, emitted, lastSig, lastEdgeTime, gesture, releasedAll>>
lcVars  == <<listener, lc_pc, lc_new, lastEvConfig, lc_fresh>>
plVars  == <<pl_pc, pl_settings, pl_faults, pl_audio, pl_transcript, pl_text,
             pl_calls, pl_error>>
edVars  == <<ed_t, ed_once, ed_twice, ed_pc>>
rqVars  == <<rq_pc, rq_is_recording, rq_queue, rq_cb, rq_cb_pc, rq_arrived,
             rq_before, rq_chunks>>
aiVars  == <<ai_cfg, ai_kind, ai_text, ai_backend, ai_result, ai_pc>>
otherVars == <<plVars, edVars, rqVars, aiVars>>
vars    == <<hkVars, ctlVars, recVars, tyVars, obsVars, lcVars, otherVars>>

-----------------------------------------------------------------------------
(* Bounds of the model *)

MaxTime == 6        \* the clock runs from StartTime to StartTime + MaxTime
MaxThreads == 2     \* live handler and pipeline threads
MaxTextLen == 4     \* tokens in a text handed to the rule-based editor
MaxChunks == 4      \* blocks the input stream hands to the callback in one recording
MaxHeld == 2         \* keys held down at a time, under SpecKeys

(* Program constants *)

DoubleTapThreshold == 4     \* self._double_tap_threshold = 0.4 s
PasteThreshold == 50        \* `len(text) > 50` selects the paste method

\* time.time() is seconds since 1970: the first press is never within the
\* threshold of the initial _last_tap_time = 0.0
StartTime == DoubleTapThreshold

-----------------------------------------------------------------------------
(* Key events and the normalizer: HotkeyHandler._normalize_key *)

\* A raw pynput key: a KeyCode carries .char (possibly None) and no .name, a Key
\* enum member carries .name and no .char; `broken` is an object whose
\* attribute access raises.
KeyCodeOf(c) == [hasChar |-> TRUE,  char |-> c,  hasName |-> FALSE, name |-> "",
                 str |-> c, broken |-> FALSE]
KeyEnum(n)   == [hasChar |-> FALSE, char |-> "", hasName |-> TRUE,  name |-> n,
                 str |-> n, broken |-> FALSE]
OtherKey(s)  == [hasChar |-> FALSE, char |-> "", hasName |-> FALSE, name |-> "",
                 str |-> s, broken |-> FALSE]
BrokenKey    == [hasChar |-> FALSE, char |-> "", hasName |-> FALSE, name |-> "",
                 str |-> "", broken |-> TRUE]

\* str.lower() on the strings of the model
Lower(s) ==
    CASE s = "A"     -> "a"
      [] s = "CMD_R" -> "cmd_r"
      [] s = "SHIFT" -> "shift"
      [] OTHER       -> s

\* str(key).replace("Key.", "") on the strings of the model
StripKeyPrefix(s) ==
    CASE s = "Key.cmd"     -> "cmd"
      [] s = "Key.cmd_l"   -> "cmd_l"
      [] s = "Key.cmd_r"   -> "cmd_r"
      [] s = "Key.ctrl"    -> "ctrl"
      [] s = "Key.ctrl_l"  -> "ctrl_l"
      [] s = "Key.ctrl_r"  -> "ctrl_r"
      [] s = "Key.shift"   -> "shift"
      [] s = "Key.shift_l" -> "shift_l"
      [] s = "Key.shift_r" -> "shift_r"
      [] s = "Key.alt"     -> "alt"
      [] s = "Key.alt_l"   -> "alt_l"
      [] s = "Key.alt_r"   -> "alt_r"
      [] s = "Key.option"  -> "option"
      [] s = "Key.space"   -> "space"
      [] OTHER             -> s

\* The result "" stands for None and for the empty string: both are falsy in
\* the `if key_str:` of the callers.
NormalizeKey(key) ==
    IF key.broken THEN ""
    ELSE IF key.hasChar /\ key.char # "" THEN Lower(key.char)
    ELSE IF key.hasName THEN Lower(key.name)
    ELSE LET key_str == Lower(StripKeyPrefix(key.str)) IN
         IF key_str \in {"cmd", "cmd_l", "cmd_r"} THEN "cmd"
         ELSE IF key_str \in {"ctrl", "ctrl_l", "ctrl_r"} THEN "ctrl"
         ELSE IF key_str \in {"shift", "shift_l", "shift_r"} THEN "shift"
         ELSE IF key_str \in {"alt", "alt_l", "alt_r", "option"} THEN "alt"
         ELSE key_str

\* The keys whose events the listener delivers in the model
HotkeyKeys == {KeyEnum("cmd"), KeyEnum("cmd_r"), KeyEnum("shift"), KeyEnum("space"),
               KeyCodeOf("A"), BrokenKey}
ComboKeys  == {KeyEnum("cmd"), KeyEnum("space")}

Modes == {"hold", "toggle", "wispr"}

\* HotkeyConfig values: modifier2 = "" is "not set"
HotkeyConfigs ==
    [modifier1 : {"cmd"}, modifier2 : {"", "shift"}, key : {"space"}, mode : Modes]
\* HotkeyConfig.mode as config.py declares it: Literal["hold", "toggle"]
ConfigModes == {"hold", "toggle"}
ComboConfigs ==
    [modifier1 : {"cmd"}, modifier2 : {""}, key : {"space"}, mode : ConfigModes]

-----------------------------------------------------------------------------
(* HotkeyHandler: hotkey.py *)

\* The required set of _is_hotkey_pressed
Required ==
    {Lower(config.modifier1), Lower(config.key)}
        \cup (IF config.modifier2 # "" THEN {Lower(config.modifier2)} ELSE {})

\* _is_hotkey_pressed, with self._pressed_keys = keys
IsHotkeyPressed(keys) == Required \subseteq keys

\* Mutant: the guard without `not self._hotkey_active`
PressFires_NoActiveGuard(keys) == IsHotkeyPressed(keys)

\* The guard of _on_press: `self._is_hotkey_pressed() and not self._hotkey_active`
PressFires(keys) == IsHotkeyPressed(keys) /\ ~hotkey_active

\* Mutant: the toggle branch without the flip of _is_toggled
TogglePress_NoFlip ==
    [toggled |-> TRUE, cont |-> in_continuous_mode, tap |-> last_tap_time,
     sig |-> "activate"]

\* The toggle branch of _on_press (both callbacks are given by every front-end)
TogglePress ==
    [toggled |-> ~is_toggled, cont |-> in_continuous_mode, tap |-> last_tap_time,
     sig |-> IF ~is_toggled THEN "activate" ELSE "deactivate"]

\* Mutant: the double-tap test with <= for <
IsDoubleTap_Inclusive(current_time) ==
    current_time - last_tap_time <= DoubleTapThreshold

\* The double-tap test of the wispr branch
IsDoubleTap(current_time) == current_time - last_tap_time < DoubleTapThreshold

\* The wispr branch of _on_press
WisprPress(current_time) ==
    IF in_continuous_mode
    THEN [toggled |-> is_toggled, cont |-> FALSE, tap |-> current_time,
          sig |-> "deactivate"]
    ELSE IF IsDoubleTap(current_time)
    THEN [toggled |-> is_toggled, cont |-> TRUE, tap |-> current_time,
          sig |-> "activate"]
    ELSE [toggled |-> is_toggled, cont |-> in_continuous_mode, tap |-> current_time,
          sig |-> "activate"]

\* The hold branch of _on_press
HoldPress ==
    [toggled |-> is_toggled, cont |-> in_continuous_mode, tap |-> last_tap_time,
     sig |-> "activate"]

\* The mode dispatch of _on_press, taken when the guard holds
PressBranch(current_time) ==
    IF config.mode = "toggle" THEN TogglePress
    ELSE IF config.mode = "wispr" THEN WisprPress(current_time)
    ELSE HoldPress

\* The two release rules of _on_release: hold, and wispr outside continuous mode
ReleaseFires(keys) ==
    \/ config.mode = "hold" /\ hotkey_active /\ ~IsHotkeyPressed(keys)
    \/ /\ config.mode = "wispr" /\ hotkey_active /\ ~in_continuous_mode
       /\ ~IsHotkeyPressed(keys)

\* Mutant: no reset of the flag when the last key is released
ResetWhenEmpty_Never(keys, active) == active

\* `if not self._pressed_keys: self._hotkey_active = False`
ResetWhenEmpty(keys, active) == IF keys = {} THEN FALSE ELSE active

\* threading.Thread(target=self.on_activate / self.on_deactivate).start()
\* audio is what recorder.stop() returned to the thread: "" before the call
\* and when it raised, "wav" for WAV bytes, and for b"" the return that gave
\* it: "not_recording" for the first test, "empty" for the drained queue.
\* found is what on_activate found when it ran its first test: "" before the
\* test, "recording" when is_recording was true, "other" when it was false.
\* A thread is of kind "A" (on_activate), "D" (on_deactivate), "P" (the
\* pipeline) or "T" (the test of the menu bar's "Test Recording").
NewThread(sig) ==
    [kind  |-> IF sig = "activate" THEN "A" ELSE "D",
     pc    |-> IF sig = "activate" THEN "a_gate" ELSE "d_gate",
     audio |-> "",
     found |-> ""]

Spawn(sig) ==
    IF sig = "none" \/ frontend = "stub" THEN threads
    ELSE Append(threads, NewThread(sig))

CanSpawn(sig) ==
    sig = "none" \/ frontend = "stub" \/ Len(threads) < MaxThreads

\* What the spec calls the press edge: the required set was not fully held
\* before the event and is fully held after it
SetEdge(keys) == ~IsHotkeyPressed(pressed_keys) /\ IsHotkeyPressed(keys)

\* _on_press: `if key_str: self._pressed_keys.add(key_str)`
KeysAfterPress(key) ==
    LET key_str == NormalizeKey(key)
    IN  IF key_str # "" THEN pressed_keys \cup {key_str} ELSE pressed_keys

\* Mutant: a release that leaves the pressed set alone
KeysAfterRelease_NoDiscard(key) == pressed_keys

\* _on_release: `if key_str: self._pressed_keys.discard(key_str)`
KeysAfterRelease(key) ==
    LET key_str == NormalizeKey(key)
    IN  IF key_str # "" THEN pressed_keys \ {key_str} ELSE pressed_keys

\* The signal _on_press(key) emits
PressSignal(key) ==
    LET key_str == NormalizeKey(key)
        keys    == KeysAfterPress(key)
    IN  IF PressFires(keys) THEN PressBranch(now).sig ELSE "none"

\* _on_press(key)
OnPress(key) ==
    LET key_str == NormalizeKey(key)
        keys    == KeysAfterPress(key)
        fires   == PressFires(keys)
        b       == PressBranch(now)
    IN  /\ CanSpawn(PressSignal(key))
        /\ pressed_keys' = keys
        /\ hotkey_active' = (IF fires THEN TRUE ELSE hotkey_active)
        /\ is_toggled' = (IF fires THEN b.toggled ELSE is_toggled)
        /\ in_continuous_mode' = (IF fires THEN b.cont ELSE in_continuous_mode)
        /\ last_tap_time' = (IF fires THEN b.tap ELSE last_tap_time)
        /\ threads' = Spawn(PressSignal(key))
        /\ UNCHANGED <<config, now, frontend, is_recording, is_processing>>
        /\ UNCHANGED <<recVars, tyVars, otherVars>>

\* The signal _on_release(key) emits
ReleaseSignal(key) ==
    LET key_str == NormalizeKey(key)
        keys    == KeysAfterRelease(key)
    IN  IF ReleaseFires(keys) THEN "deactivate" ELSE "none"

\* _on_release(key)
OnRelease(key) ==
    LET key_str == NormalizeKey(key)
        keys    == KeysAfterRelease(key)
        fires   == ReleaseFires(keys)
    IN  /\ CanSpawn(ReleaseSignal(key))
        /\ pressed_keys' = keys
        /\ hotkey_active' = ResetWhenEmpty(keys, IF fires THEN FALSE ELSE hotkey_active)
        /\ threads' = Spawn(ReleaseSignal(key))
        /\ UNCHANGED <<config, is_toggled, last_tap_time, in_continuous_mode, now>>
        /\ UNCHANGED <<frontend, is_recording, is_processing>>
        /\ UNCHANGED <<recVars, tyVars, otherVars>>

\* The clock advances
Tick ==
    /\ now < StartTime + MaxTime
    /\ now' = now + 1
    /\ UNCHANGED <<config, pressed_keys, hotkey_active, is_toggled, last_tap_time,
                   in_continuous_mode>>
    /\ UNCHANGED <<ctlVars, recVars, tyVars, otherVars>>

(* The observer of the key events: it records each event, the signal it     *)
(* emitted, and classifies the presses that complete the combination by the *)
(* spec's rules (an edge of the required set, 0.4 s between edges).         *)

ObservePress(key) ==
    LET sig == PressSignal(key) IN
    /\ lastEv' = "press"
    /\ emitted' = sig
    /\ lastSig' = (IF sig # "none" THEN sig ELSE lastSig)
    /\ lastEdgeTime' = (IF SetEdge(pressed_keys') THEN now ELSE lastEdgeTime)
    /\ gesture' = (IF ~SetEdge(pressed_keys') THEN gesture
                   ELSE IF in_continuous_mode THEN "stop"
                   ELSE IF now - lastEdgeTime < DoubleTapThreshold THEN "latch"
                   ELSE "single")
    /\ releasedAll' = (IF SetEdge(pressed_keys') THEN FALSE ELSE releasedAll)

ObserveRelease(key) ==
    LET sig == ReleaseSignal(key) IN
    /\ lastEv' = "release"
    /\ emitted' = sig
    /\ lastSig' = (IF sig # "none" THEN sig ELSE lastSig)
    /\ releasedAll' = (releasedAll \/ pressed_keys' = {})
    /\ UNCHANGED <<lastEdgeTime, gesture>>

ObserveTick ==
    /\ lastEv' = "tick"
    /\ emitted' = "none"
    /\ UNCHANGED <<lastSig, lastEdgeTime, gesture, releasedAll>>

\* The settings of a pipeline that has not been set up
NoSettings ==
    [dictionary |-> FALSE, voice_commands |-> FALSE, ai_editor |-> FALSE,
     snippets |-> FALSE, editor |-> "basic"]

\* HotkeyHandler.__init__ with configuration c, and the rest of the program at
\* rest under front-end f
InitProgram(c, f) ==
    /\ config = c
    /\ pressed_keys = {}
    /\ hotkey_active = FALSE
    /\ is_toggled = FALSE
    /\ last_tap_time = 0
    /\ in_continuous_mode = FALSE
    /\ now = StartTime
    /\ frontend = f
    /\ is_recording = FALSE
    /\ is_processing = FALSE
    /\ threads = <<>>
    /\ rec_is_recording = FALSE
    /\ stream = FALSE
    /\ leaked = FALSE
    /\ queued = FALSE
    /\ ty_pc = "idle"
    /\ ty_text = 0
    /\ clipboard = "orig"
    /\ original_clipboard = "none"
    /\ ty_typed = 0
    /\ ty_log = <<>>
    /\ ty_raised = FALSE
    /\ ty_method = "auto"
    /\ lastEv = "init"
    /\ emitted = "none"
    /\ lastSig = "none"
    /\ lastEdgeTime = 0
    /\ gesture = "none"
    /\ releasedAll = TRUE
    /\ listener = TRUE
    /\ lc_pc = "idle"
    /\ lc_new = c
    /\ lastEvConfig = c
    /\ lc_fresh = TRUE

\* No pipeline run has started
PipelineAtRest ==
    /\ pl_pc = "idle"
    /\ pl_settings = NoSettings
    /\ pl_faults = {}
    /\ pl_audio = ""
    /\ pl_transcript = <<>>
    /\ pl_text = <<>>
    /\ pl_calls = <<>>
    /\ pl_error = FALSE

\* The editor has not been called
EditorAtRest ==
    /\ ed_t = <<>>
    /\ ed_once = <<>>
    /\ ed_twice = <<>>
    /\ ed_pc = "idle"

\* No editor has been created
AiEditorAtRest ==
    /\ ai_cfg = [enabled |-> FALSE, provider |-> "none", key |-> FALSE, custom_prompt |-> ""]
    /\ ai_kind = ""
    /\ ai_text = <<>>
    /\ ai_backend = ""
    /\ ai_result = [end |-> "", text |-> <<>>]
    /\ ai_pc = "new"

\* AudioRecorder.__init__: not recording, empty queue
RecorderQueueAtRest ==
    /\ rq_pc = "idle"
    /\ rq_is_recording = FALSE
    /\ rq_queue = <<>>
    /\ rq_cb = 0
    /\ rq_cb_pc = "idle"
    /\ rq_arrived = 0
    /\ rq_before = <<>>
    /\ rq_chunks = <<>>

InitWith(c, f) ==
    /\ InitProgram(c, f)
    /\ PipelineAtRest
    /\ EditorAtRest
    /\ RecorderQueueAtRest
    /\ AiEditorAtRest

\* The handler alone, with callbacks that do nothing
InitHotkey == \E c \in HotkeyConfigs : InitWith(c, "stub")

\* time.time() is read by every edge press and used by the wispr branch alone,
\* so the clock is left still in the other modes.
NextHotkey ==
    \/ \E key \in HotkeyKeys : OnPress(key) /\ ObservePress(key) /\ UNCHANGED lcVars
    \/ \E key \in HotkeyKeys : OnRelease(key) /\ ObserveRelease(key) /\ UNCHANGED lcVars
    \/ config.mode = "wispr" /\ Tick /\ ObserveTick /\ UNCHANGED lcVars

SpecHotkey == InitHotkey /\ [][NextHotkey]_vars

\* The handler under every physical variant of the modifier keys.  A pynput Key
\* member carries .name (Key.cmd_r.name is "cmd_r"); an object with neither
\* .char nor .name is printed by str(), as "Key.cmd_r".
ModifierFamilies == {"cmd", "ctrl", "shift", "alt"}

VariantNames ==
    {"cmd", "cmd_l", "cmd_r", "ctrl", "ctrl_l", "ctrl_r",
     "shift", "shift_l", "shift_r", "alt", "alt_l", "alt_r"}

\* str(key) of the member named n
KeyStr(n) ==
    CASE n = "cmd"     -> "Key.cmd"
      [] n = "cmd_l"   -> "Key.cmd_l"
      [] n = "cmd_r"   -> "Key.cmd_r"
      [] n = "ctrl"    -> "Key.ctrl"
      [] n = "ctrl_l"  -> "Key.ctrl_l"
      [] n = "ctrl_r"  -> "Key.ctrl_r"
      [] n = "shift"   -> "Key.shift"
      [] n = "shift_l" -> "Key.shift_l"
      [] n = "shift_r" -> "Key.shift_r"
      [] n = "alt"     -> "Key.alt"
      [] n = "alt_l"   -> "Key.alt_l"
      [] n = "alt_r"   -> "Key.alt_r"
      [] OTHER         -> n

ModifierKeys ==
    { KeyEnum(n) : n \in VariantNames }
        \cup { OtherKey(KeyStr(n)) : n \in VariantNames }
        \cup { OtherKey("Key.option") }

ModifierConfigs ==
    [modifier1 : ModifierFamilies, modifier2 : {""}, key : {"space"}, mode : {"hold"}]

InitKeys == \E c \in ModifierConfigs : InitWith(c, "stub")

\* At most MaxHeld keys are held at a time
NextKeys ==
    \/ /\ Cardinality(pressed_keys) < MaxHeld
       /\ \E key \in ModifierKeys \cup {KeyEnum("space")} :
            OnPress(key) /\ ObservePress(key) /\ UNCHANGED lcVars
    \/ \E key \in ModifierKeys \cup {KeyEnum("space")} :
         OnRelease(key) /\ ObserveRelease(key) /\ UNCHANGED lcVars

SpecKeys == InitKeys /\ [][NextKeys]_vars

-----------------------------------------------------------------------------
(* The life cycle of the handler: HotkeyHandler.start / stop / update_config *)
(* (hotkey.py), WhisperFlowApp._set_mode (ui/menubar.py) and               *)
(* AppDelegate.modeChanged_ (rodin/ui/app.py).  The callers run in the UI   *)
(* thread, one statement per step; the listener thread delivers key events *)
(* between any two of them while the listener exists.                      *)

LifecycleConfigs ==
    [modifier1 : {"cmd"}, modifier2 : {""}, key : {"space"}, mode : Modes]

\* What the life-cycle steps leave alone
LifecycleFrame ==
    /\ emitted' = "none"
    /\ UNCHANGED <<now, ctlVars, recVars, tyVars, otherVars, lastEvConfig,
                   lastSig, lastEdgeTime, gesture, releasedAll>>

\* stop() has no statement for self._in_continuous_mode: it keeps its value
StopClearsContinuous == in_continuous_mode

\* The body of stop(): the listener is dropped, _pressed_keys is cleared,
\* _hotkey_active and _is_toggled are set to False
StopBody ==
    /\ listener' = FALSE
    /\ pressed_keys' = {}
    /\ hotkey_active' = FALSE
    /\ is_toggled' = FALSE
    /\ in_continuous_mode' = StopClearsContinuous
    /\ UNCHANGED last_tap_time

\* The body of start(): `if self._listener is not None: return`, else a new
\* listener is created and started
StartBody ==
    /\ listener' = TRUE
    /\ lc_fresh' = (IF listener THEN lc_fresh ELSE TRUE)
    /\ UNCHANGED <<pressed_keys, hotkey_active, is_toggled, in_continuous_mode,
                   last_tap_time>>

\* A front-end calls hotkey_handler.stop()
Stop ==
    /\ lc_pc = "idle"
    /\ StopBody
    /\ lastEv' = "stop"
    /\ UNCHANGED <<config, lc_pc, lc_new, lc_fresh>>
    /\ LifecycleFrame

\* A front-end calls hotkey_handler.start()
Start ==
    /\ lc_pc = "idle"
    /\ StartBody
    /\ lastEv' = "start"
    /\ UNCHANGED <<config, lc_pc, lc_new>>
    /\ LifecycleFrame

\* update_config(c): `was_running = self.is_running(); if was_running: self.stop()`
UpdateConfigStop(c) ==
    /\ lc_pc \in {"idle", "sm_update"}
    /\ lc_pc = "idle" => c # config
    /\ lc_pc = "sm_update" => c = config
    /\ lc_new' = c
    /\ IF listener
       THEN StopBody /\ lc_pc' = "uc_swap_restart"
       ELSE /\ lc_pc' = "uc_swap"
            /\ UNCHANGED <<listener, pressed_keys, hotkey_active, is_toggled,
                           in_continuous_mode, last_tap_time>>
    /\ lastEv' = "stop"
    /\ UNCHANGED <<config, lc_fresh>>
    /\ LifecycleFrame

\* update_config: self.config = config
UpdateConfigSwap ==
    /\ lc_pc \in {"uc_swap", "uc_swap_restart"}
    /\ config' = lc_new
    /\ lc_pc' = (IF lc_pc = "uc_swap_restart" THEN "uc_start" ELSE "idle")
    /\ lastEv' = "config"
    /\ UNCHANGED <<listener, pressed_keys, hotkey_active, is_toggled,
                   in_continuous_mode, last_tap_time, lc_new, lc_fresh>>
    /\ LifecycleFrame

\* update_config: `if was_running: self.start()`
UpdateConfigStart ==
    /\ lc_pc = "uc_start"
    /\ StartBody
    /\ lc_pc' = "idle"
    /\ lastEv' = "start"
    /\ UNCHANGED <<config, lc_new>>
    /\ LifecycleFrame

\* WhisperFlowApp._set_mode: self.settings.hotkey.mode = mode.  settings.hotkey
\* is the object the handler holds as self.config, so the handler's mode
\* changes here, before update_config is called.
SetModeAssign(mode) ==
    /\ lc_pc = "idle"
    /\ mode \in ConfigModes
    /\ mode # config.mode
    /\ config' = [config EXCEPT !.mode = mode]
    /\ lc_pc' = "sm_update"
    /\ lastEv' = "config"
    /\ UNCHANGED <<listener, pressed_keys, hotkey_active, is_toggled,
                   in_continuous_mode, last_tap_time, lc_new, lc_fresh>>
    /\ LifecycleFrame

\* AppDelegate.modeChanged_: self.overlay.hotkey_handler.config.mode = mode
ModeChanged(mode) ==
    /\ lc_pc = "idle"
    /\ mode # config.mode
    /\ config' = [config EXCEPT !.mode = mode]
    /\ lastEv' = "config"
    /\ UNCHANGED <<listener, pressed_keys, hotkey_active, is_toggled,
                   in_continuous_mode, last_tap_time, lc_pc, lc_new, lc_fresh>>
    /\ LifecycleFrame

\* History of a key event: its kind, the signal it emitted, the latest signal
\* emitted so far, the configuration that classified it, and whether it is the
\* first press to complete the combination since start()
ObserveLifecycle(ev, sig) ==
    /\ lastEv' = ev
    /\ emitted' = sig
    /\ lastEvConfig' = config
    /\ lc_fresh' = (lc_fresh /\ ~(ev = "press" /\ SetEdge(pressed_keys')))
    /\ lastSig' = (IF sig # "none" THEN sig ELSE lastSig)
    /\ UNCHANGED <<listener, lc_pc, lc_new, lastEdgeTime, gesture, releasedAll>>

InitLifecycle == \E c \in LifecycleConfigs : InitWith(c, "stub")

NextLifecycle ==
    \/ \E key \in ComboKeys :
          listener /\ OnPress(key) /\ ObserveLifecycle("press", PressSignal(key))
    \/ \E key \in ComboKeys :
          listener /\ OnRelease(key) /\ ObserveLifecycle("release", ReleaseSignal(key))
    \/ config.mode = "wispr" /\ Tick /\ ObserveTick /\ UNCHANGED lcVars
    \/ Stop
    \/ Start
    \/ \E c \in LifecycleConfigs : UpdateConfigStop(c)
    \/ UpdateConfigSwap
    \/ UpdateConfigStart
    \/ \E mode \in Modes : SetModeAssign(mode)
    \/ \E mode \in Modes : ModeChanged(mode)

SpecLifecycle == InitLifecycle /\ [][NextLifecycle]_vars

-----------------------------------------------------------------------------
(* The session controller: run_cli.on_activate / on_deactivate (main.py),  *)
(* WhisperFlowApp._on_hotkey_activate / _on_hotkey_deactivate /            *)
(* _process_recording (ui/menubar.py), OverlayWindow._on_activate /        *)
(* _on_deactivate / _process_recording (ui/overlay.py, ui/overlay_win.py), *)
(* with AudioRecorder.start / stop (recorder.py) inlined at their calls.   *)

\* Two controllers cover the front-ends.  "cli" is run_cli: its gate tests
\* is_processing and its pipeline runs in the deactivate handler's thread.
\* "overlay" is ui/overlay.py: its gate tests both flags and its pipeline runs
\* in a thread of its own.  ui/overlay_win.py does both as ui/overlay.py does.
\* ui/menubar.py tests as the CLI does and starts the pipeline as the overlay
\* does; starting a thread touches no shared state, so its interleavings are
\* those of "cli".  "menubar" is ui/menubar.py itself, for its "Test
\* Recording" item, which the other front-ends do not have.
Frontends == {"cli", "overlay"}

SetPc(i, pc)       == [threads EXCEPT ![i].pc = pc]
\* recorder.stop() returns to the pipeline: `if not audio_data: return`
\* and to the test: audio_data = self.recorder.stop()
StopReturns(i, audio) ==
    [threads EXCEPT ![i].pc = IF threads[i].kind = "T" THEN "t_done"
                              ELSE IF audio = "wav" THEN "p_stages" ELSE "p_finally",
                    ![i].audio = audio]
Remove(i)          == SubSeq(threads, 1, i - 1) \o SubSeq(threads, i + 1, Len(threads))
At(i, pc)          == i \in DOMAIN threads /\ threads[i].pc = pc
\* recorder.start() returns: on_activate ends, the test goes on to its sleep
StartReturns(i) ==
    IF threads[i].kind = "T" THEN SetPc(i, "t_sleep") ELSE Remove(i)

\* The first test of the activate handler: `if is_processing: return` (CLI),
\* `if self._is_processing or self._is_recording: return` (overlay)
ActivateBlocked ==
    IF frontend \in {"cli", "menubar"} THEN is_processing
    ELSE is_processing \/ is_recording

\* Mutant: a deactivate handler without its first test
DeactivateBlocked_Never == FALSE

\* The first test of the deactivate handler: `if not is_recording: return`
DeactivateBlocked == ~is_recording

\* An Activate handler started earlier that has not yet set is_recording
PendingActivateBefore(i) ==
    \E j \in 1..(i - 1) : threads[j].kind = "A" /\ threads[j].pc \in {"a_gate", "a_set"}

\* on_activate: the gate
AGate(i) ==
    /\ At(i, "a_gate")
    /\ threads' = [threads EXCEPT
                      ![i].pc = IF ActivateBlocked THEN "a_ret" ELSE "a_set",
                      ![i].found = IF is_recording THEN "recording" ELSE "other"]
    /\ UNCHANGED <<hkVars, frontend, is_recording, is_processing, recVars, tyVars, obsVars, lcVars,
                   otherVars>>

\* The `return` of a gate that ignores the signal; the thread ends
GateReturn(i) ==
    /\ i \in DOMAIN threads
    /\ threads[i].pc \in {"a_ret", "d_ret"}
    /\ threads' = Remove(i)
    /\ UNCHANGED <<hkVars, frontend, is_recording, is_processing, recVars, tyVars,
                   obsVars, lcVars,
                   otherVars>>

\* on_activate: is_recording = True, then the call of recorder.start()
ASet(i) ==
    /\ At(i, "a_set")
    /\ is_recording' = TRUE
    /\ threads' = SetPc(i, "rs_gate")
    /\ UNCHANGED <<hkVars, frontend, is_processing, recVars, tyVars, obsVars, lcVars,
                   otherVars>>

\* AudioRecorder.start: `if self._is_recording: return`
RsGate(i) ==
    /\ At(i, "rs_gate")
    /\ threads' = (IF rec_is_recording THEN StartReturns(i) ELSE SetPc(i, "rs_set"))
    /\ UNCHANGED <<hkVars, frontend, is_recording, is_processing, recVars, tyVars, obsVars, lcVars,
                   otherVars>>

\* AudioRecorder.start: self._is_recording = True
RsSet(i) ==
    /\ At(i, "rs_set")
    /\ rec_is_recording' = TRUE
    /\ threads' = SetPc(i, "rs_queue")
    /\ UNCHANGED <<hkVars, frontend, is_recording, is_processing, stream, leaked,
                   queued, tyVars, obsVars, lcVars,
                   otherVars>>

\* AudioRecorder.start: self._audio_queue = queue.Queue()
RsQueue(i) ==
    /\ At(i, "rs_queue")
    /\ queued' = FALSE
    /\ threads' = SetPc(i, "rs_open")
    /\ UNCHANGED <<hkVars, frontend, is_recording, is_processing, rec_is_recording,
                   stream, leaked, tyVars, obsVars, lcVars,
                   otherVars>>

\* AudioRecorder.start: self._stream = sd.InputStream(...); self._stream.start().
\* A stream still referenced by self._stream loses its reference and stays open.
RsOpen(i) ==
    /\ At(i, "rs_open")
    /\ stream' = TRUE
    /\ leaked' = (leaked \/ stream)
    /\ threads' = StartReturns(i)
    /\ UNCHANGED <<hkVars, frontend, is_recording, is_processing, rec_is_recording,
                   queued, tyVars, obsVars, lcVars,
                   otherVars>>

\* AudioRecorder.start: sd.InputStream(...) raises; nothing in the handler
\* catches it and the thread ends
RsOpenFails(i) ==
    /\ At(i, "rs_open")
    /\ threads' = Remove(i)
    /\ UNCHANGED <<hkVars, frontend, is_recording, is_processing, recVars, tyVars, obsVars, lcVars,
                   otherVars>>

\* on_deactivate: the gate
DGate(i) ==
    /\ At(i, "d_gate")
    /\ threads' = (IF DeactivateBlocked THEN SetPc(i, "d_ret") ELSE SetPc(i, "d_set1"))
    /\ UNCHANGED <<hkVars, frontend, is_recording, is_processing, recVars, tyVars, obsVars, lcVars,
                   otherVars>>

\* on_deactivate: is_recording = False
DSet1(i) ==
    /\ At(i, "d_set1")
    /\ is_recording' = FALSE
    /\ threads' = SetPc(i, "d_set2")
    /\ UNCHANGED <<hkVars, frontend, is_processing, recVars, tyVars, obsVars, lcVars,
                   otherVars>>

\* on_deactivate: is_processing = True; the CLI goes on into the pipeline in
\* the same thread, the others start _process_recording in a new one
DSet2(i) ==
    /\ At(i, "d_set2")
    /\ is_processing' = TRUE
    /\ threads' = SetPc(i, IF frontend = "cli" THEN "st_gate" ELSE "d_spawn")
    /\ UNCHANGED <<hkVars, frontend, is_recording, recVars, tyVars, obsVars, lcVars,
                   otherVars>>

\* threading.Thread(target=self._process_recording, daemon=True).start()
DSpawn(i) ==
    /\ At(i, "d_spawn")
    /\ threads' = [threads EXCEPT ![i] = [kind |-> "P", pc |-> "st_gate", audio |-> "", found |-> ""]]
    /\ UNCHANGED <<hkVars, frontend, is_recording, is_processing, recVars, tyVars, obsVars, lcVars,
                   otherVars>>

\* AudioRecorder.stop: `if not self._is_recording: return b""`, and the
\* pipeline's `if not audio_data: return`
StGate(i) ==
    /\ At(i, "st_gate")
    /\ threads' = (IF ~rec_is_recording THEN StopReturns(i, "not_recording")
                   ELSE SetPc(i, "st_clear"))
    /\ UNCHANGED <<hkVars, frontend, is_recording, is_processing, recVars, tyVars, obsVars, lcVars,
                   otherVars>>

\* AudioRecorder.stop: self._is_recording = False
StClear(i) ==
    /\ At(i, "st_clear")
    /\ rec_is_recording' = FALSE
    /\ threads' = SetPc(i, "st_close")
    /\ UNCHANGED <<hkVars, frontend, is_recording, is_processing, stream, leaked,
                   queued, tyVars, obsVars, lcVars,
                   otherVars>>

\* AudioRecorder.stop: `if self._stream:` stop, close, self._stream = None
StClose(i) ==
    /\ At(i, "st_close")
    /\ stream' = FALSE
    /\ threads' = SetPc(i, "st_drain")
    /\ UNCHANGED <<hkVars, frontend, is_recording, is_processing, rec_is_recording,
                   leaked, queued, tyVars, obsVars, lcVars,
                   otherVars>>

\* AudioRecorder.stop: self._stream.stop() raises; the pipeline's except
\* clause catches it, and nothing in the test does: its thread ends
StCloseFails(i) ==
    /\ At(i, "st_close")
    /\ stream
    /\ threads' = (IF threads[i].kind = "T" THEN Remove(i) ELSE SetPc(i, "p_finally"))
    /\ UNCHANGED <<hkVars, frontend, is_recording, is_processing, recVars, tyVars, obsVars, lcVars,
                   otherVars>>

\* AudioRecorder.stop: the queue is drained; `if not audio_chunks: return b""`
\* and the pipeline's `if not audio_data: return`
StDrain(i) ==
    /\ At(i, "st_drain")
    /\ queued' = FALSE
    /\ threads' = (IF ~queued THEN StopReturns(i, "empty")
                   ELSE StopReturns(i, "wav"))
    /\ UNCHANGED <<hkVars, frontend, is_recording, is_processing, rec_is_recording,
                   stream, leaked, tyVars, obsVars, lcVars,
                   otherVars>>

\* The rest of the try body: transcribe, `if not text: return`, the edit when
\* enabled, typer.type_text(text).  None of it touches the controller or the
\* recorder, and every way out of it (the end, the early return, an exception
\* caught by the except clause) leads to the finally clause.
PStages(i) ==
    /\ At(i, "p_stages")
    /\ threads' = SetPc(i, "p_finally")
    /\ UNCHANGED <<hkVars, frontend, is_recording, is_processing, recVars, tyVars,
                   obsVars, lcVars,
                   otherVars>>

\* The pipeline's finally clause; the thread ends
PFinally(i) ==
    /\ At(i, "p_finally")
    /\ is_processing' = FALSE
    /\ threads' = Remove(i)
    /\ UNCHANGED <<hkVars, frontend, is_recording, recVars, tyVars, obsVars, lcVars,
                   otherVars>>

\* AudioRecorder._audio_callback, called by an open stream
AudioCallback ==
    /\ stream \/ leaked
    /\ rec_is_recording
    /\ queued' = TRUE
    /\ UNCHANGED <<hkVars, ctlVars, rec_is_recording, stream, leaked, tyVars, obsVars, lcVars,
                   otherVars>>

\* Input streams known to be open: the referenced one and a leaked one
OpenStreams == (IF stream THEN 1 ELSE 0) + (IF leaked THEN 1 ELSE 0)

\* The threads whose pipeline run is in flight
InPipeline(t) ==
    /\ t.kind # "T"
    /\ t.pc \in {"st_gate", "st_clear", "st_close", "st_drain",
                 "p_stages", "p_finally"}
PipelinesInFlight == Cardinality({i \in DOMAIN threads : InPipeline(threads[i])})

Init == \E c \in ComboConfigs : \E f \in Frontends : InitWith(c, f)

ThreadStep(i) ==
    \/ AGate(i) \/ ASet(i) \/ GateReturn(i)
    \/ RsGate(i) \/ RsSet(i) \/ RsQueue(i) \/ RsOpen(i) \/ RsOpenFails(i)
    \/ DGate(i) \/ DSet1(i) \/ DSet2(i) \/ DSpawn(i)
    \/ StGate(i) \/ StClear(i) \/ StClose(i) \/ StCloseFails(i) \/ StDrain(i)
    \/ PStages(i) \/ PFinally(i)

\* The whole program.  The key events of a run fall within one tick of the
\* clock; the observer of SpecHotkey is not part of it.
Next ==
    \/ \E key \in ComboKeys : OnPress(key) /\ UNCHANGED <<obsVars, lcVars>>
    \/ \E key \in ComboKeys : OnRelease(key) /\ UNCHANGED <<obsVars, lcVars>>
    \/ \E i \in 1..MaxThreads : ThreadStep(i)
    \/ AudioCallback

Spec == Init /\ [][Next]_vars

\* WhisperFlowApp._test_recording: the menu item starts a thread that runs
\* test(); its first call is self.recorder.start()
TestRecording ==
    /\ frontend = "menubar"
    /\ Len(threads) < MaxThreads
    /\ threads' = Append(threads, [kind |-> "T", pc |-> "rs_gate", audio |-> "",
                                     found |-> ""])
    /\ UNCHANGED <<hkVars, frontend, is_recording, is_processing, recVars, tyVars,
                   obsVars, lcVars, otherVars>>

\* test(): time.sleep(3) is over; the next call is self.recorder.stop()
TestSleep(i) ==
    /\ At(i, "t_sleep")
    /\ threads' = SetPc(i, "st_gate")
    /\ UNCHANGED <<hkVars, frontend, is_recording, is_processing, recVars, tyVars,
                   obsVars, lcVars, otherVars>>

\* test(): the notification for audio_data, and the thread ends
TestDone(i) ==
    /\ At(i, "t_done")
    /\ threads' = Remove(i)
    /\ UNCHANGED <<hkVars, frontend, is_recording, is_processing, recVars, tyVars,
                   obsVars, lcVars, otherVars>>

InitTest == \E c \in ComboConfigs : c.mode = "hold" /\ InitWith(c, "menubar")

\* The menu bar application in hold mode, with its "Test Recording" item
NextTest ==
    \/ \E key \in ComboKeys : OnPress(key) /\ UNCHANGED <<obsVars, lcVars>>
    \/ \E key \in ComboKeys : OnRelease(key) /\ UNCHANGED <<obsVars, lcVars>>
    \/ \E i \in 1..MaxThreads : ThreadStep(i)
    \/ TestRecording
    \/ \E i \in 1..MaxThreads : TestSleep(i) \/ TestDone(i)
    \/ AudioCallback

SpecTest == InitTest /\ [][NextTest]_vars

-----------------------------------------------------------------------------
(* TextTyper: typer.py.  A text is its length; the clipboard holds "orig"   *)
(* (what the user had copied), "text" (the text being inserted) or "empty"; *)
(* original_clipboard = "none" is Python's None.                            *)

TextLens == {0, 1, PasteThreshold, PasteThreshold + 1}
Methods  == {"auto", "type", "paste"}

\* Mutant: the threshold itself selects the paste method
AutoMethod_AtThreshold(len) == IF len >= PasteThreshold THEN "paste" ELSE "type"

\* `method = "paste" if len(text) > 50 else "type"`
AutoMethod(len) == IF len > PasteThreshold THEN "paste" ELSE "type"

\* A pyperclip.copy that raises has not written: the clipboard is as before
AfterFailedCopy == {clipboard}

\* type_text(text, method): `if not text: return`, then the choice of method
TypeText(len, method) ==
    /\ ty_pc \in {"idle", "done"}
    /\ ty_text' = len
    /\ ty_typed' = 0
    /\ ty_log' = <<>>
    /\ ty_raised' = FALSE
    /\ ty_method' = method
    /\ original_clipboard' = "none"
    /\ ty_pc' = (IF len = 0 THEN "done"
                 ELSE IF (IF method = "auto" THEN AutoMethod(len) ELSE method) = "paste"
                 THEN "paste_get" ELSE "type_loop")
    /\ UNCHANGED <<clipboard, hkVars, ctlVars, recVars, obsVars, lcVars,
                   otherVars>>

\* _type_text: self.keyboard.type(char) for the next character, or the end of
\* the loop
TypeChar ==
    /\ ty_pc = "type_loop"
    /\ IF ty_typed < ty_text
       THEN ty_typed' = ty_typed + 1 /\ UNCHANGED ty_pc
       ELSE ty_pc' = "done" /\ UNCHANGED ty_typed
    /\ UNCHANGED <<ty_method, ty_text, clipboard, original_clipboard, ty_log, ty_raised>>
    /\ UNCHANGED <<hkVars, ctlVars, recVars, obsVars, lcVars,
                   otherVars>>

\* _type_text: self.keyboard.type(char) raises
TypeCharFails ==
    /\ ty_pc = "type_loop"
    /\ ty_typed < ty_text
    /\ ty_pc' = "done"
    /\ ty_raised' = TRUE
    /\ UNCHANGED <<ty_method, ty_text, clipboard, original_clipboard, ty_typed, ty_log>>
    /\ UNCHANGED <<hkVars, ctlVars, recVars, obsVars, lcVars,
                   otherVars>>

\* _paste_text: original_clipboard = pyperclip.paste(), None when it raises
PasteCapture ==
    /\ ty_pc = "paste_get"
    /\ \E ok \in BOOLEAN :
          /\ original_clipboard' = (IF ok THEN clipboard ELSE "none")
          /\ ty_log' = Append(ty_log, IF ok THEN "get" ELSE "get_failed")
    /\ ty_pc' = "paste_copy"
    /\ UNCHANGED <<ty_method, ty_text, clipboard, ty_typed, ty_raised>>
    /\ UNCHANGED <<hkVars, ctlVars, recVars, obsVars, lcVars,
                   otherVars>>

\* _paste_text: pyperclip.copy(text); a raise goes to the finally clause
PasteCopy ==
    /\ ty_pc = "paste_copy"
    /\ \/ /\ clipboard' = "text"
          /\ ty_log' = Append(ty_log, "set")
          /\ ty_pc' = "paste_key"
          /\ UNCHANGED ty_raised
       \/ /\ clipboard' \in AfterFailedCopy
          /\ ty_log' = Append(ty_log, "set_failed")
          /\ ty_pc' = "paste_finally"
          /\ ty_raised' = TRUE
    /\ UNCHANGED <<ty_method, ty_text, original_clipboard, ty_typed>>
    /\ UNCHANGED <<hkVars, ctlVars, recVars, obsVars, lcVars,
                   otherVars>>

\* _paste_text: `with self.keyboard.pressed(modifier): self.keyboard.tap("v")`
PasteShortcut ==
    /\ ty_pc = "paste_key"
    /\ \E ok \in BOOLEAN :
          /\ ty_log' = Append(ty_log, IF ok THEN "paste" ELSE "paste_failed")
          /\ ty_raised' = ~ok
    /\ ty_pc' = "paste_finally"
    /\ UNCHANGED <<ty_method, ty_text, clipboard, original_clipboard, ty_typed>>
    /\ UNCHANGED <<hkVars, ctlVars, recVars, obsVars, lcVars,
                   otherVars>>

\* Mutant: a finally clause that restores without testing for None
RestoreRuns_Always == TRUE

\* Mutant: the restore at the end of the try body, not in a finally clause
RestoreRuns_OnSuccessOnly == original_clipboard # "none" /\ ~ty_raised

\* `finally: if original_clipboard is not None:`
RestoreRuns == original_clipboard # "none"

\* _paste_text: the finally clause; a raise of the restoring copy is swallowed
PasteRestore ==
    /\ ty_pc = "paste_finally"
    /\ IF RestoreRuns
       THEN \/ /\ clipboard' = original_clipboard
               /\ ty_log' = Append(ty_log, "restore")
            \/ /\ clipboard' \in AfterFailedCopy
               /\ ty_log' = Append(ty_log, "restore_failed")
       ELSE UNCHANGED <<clipboard, ty_log>>
    /\ ty_pc' = "done"
    /\ UNCHANGED <<ty_method, ty_text, original_clipboard, ty_typed, ty_raised>>
    /\ UNCHANGED <<hkVars, ctlVars, recVars, obsVars, lcVars,
                   otherVars>>

\* The user copies something between two insertions; ty_pc = "done" is the
\* moment an insertion returns and is over by then
UserCopies ==
    /\ ty_pc \in {"idle", "done"}
    /\ ty_pc' = "idle"
    /\ clipboard' \in {"orig", "empty"} \ {clipboard}
    /\ UNCHANGED <<ty_method, ty_text, original_clipboard, ty_typed, ty_log, ty_raised>>
    /\ UNCHANGED <<hkVars, ctlVars, recVars, obsVars, lcVars,
                   otherVars>>

InitTyper == \E c \in ComboConfigs : c.mode = "hold" /\ InitWith(c, "stub")

NextTyper ==
    \/ \E len \in TextLens, method \in Methods : TypeText(len, method)
    \/ TypeChar
    \/ TypeCharFails
    \/ PasteCapture
    \/ PasteCopy
    \/ PasteShortcut
    \/ PasteRestore
    \/ UserCopies

SpecTyper == InitTyper /\ [][NextTyper]_vars

-----------------------------------------------------------------------------
(* The rule-based editor: FILLER_WORDS and BasicEditor.edit (editor.py).    *)
(* A text is the sequence of its tokens: a word (a maximal run of word      *)
(* characters, with the case of its first letter), one whitespace           *)
(* character, or one punctuation character of the class [.,!?;:].  The      *)
(* regular expressions are applied token by token, left to right, as        *)
(* re.sub applies them.                                                     *)

W(w)   == [k |-> "w", w |-> w, up |-> FALSE]     \* the word w in lower case
Cap(w) == [k |-> "w", w |-> w, up |-> TRUE]      \* the word w, first letter upper case
Sp     == [k |-> "s", w |-> " ", up |-> FALSE]   \* one space
P(c)   == [k |-> "p", w |-> c, up |-> FALSE]     \* one character of [.,!?;:]

\* FILLER_WORDS, in the order of the list.  "word": \b<a>\b for a word of a;
\* "like": \blike\b(?=,|\s+,); "pair": \b<a> <b>\b with one literal space.
FILLER_WORDS ==
    << [kind |-> "word", a |-> {"um", "umm"}, b |-> ""],
       [kind |-> "word", a |-> {"uh", "uhh"}, b |-> ""],
       [kind |-> "like", a |-> {"like"}, b |-> ""],
       [kind |-> "pair", a |-> {"you"}, b |-> "know"],
       [kind |-> "pair", a |-> {"i"}, b |-> "mean"],
       [kind |-> "pair", a |-> {"kind"}, b |-> "of"],
       [kind |-> "pair", a |-> {"sort"}, b |-> "of"],
       [kind |-> "word", a |-> {"basically"}, b |-> ""],
       [kind |-> "word", a |-> {"actually"}, b |-> ""],
       [kind |-> "word", a |-> {"literally"}, b |-> ""],
       [kind |-> "word", a |-> {"honestly"}, b |-> ""] >>

\* re.IGNORECASE: a word token is matched whatever the case of its first letter
IsWord(t, ws) == t.k = "w" /\ t.w \in ws

\* The lookahead (?=,|\s+,) at the head of r
CommaAhead(r) ==
    \E j \in 1..Len(r) :
        /\ r[j] = P(",")
        /\ \A i \in 1..(j - 1) : r[i].k = "s"

\* Number of tokens the pattern matches at the head of s, 0 when it does not
MatchLen(pat, s) ==
    CASE pat.kind = "word" -> IF IsWord(s[1], pat.a) THEN 1 ELSE 0
      [] pat.kind = "like" ->
            IF IsWord(s[1], pat.a) /\ CommaAhead(Tail(s)) THEN 1 ELSE 0
      [] pat.kind = "pair" ->
            IF /\ Len(s) >= 3
               /\ IsWord(s[1], pat.a)
               /\ s[2] = Sp
               /\ IsWord(s[3], {pat.b})
            THEN 3 ELSE 0

\* re.sub(pattern, "", s, flags=re.IGNORECASE)
RECURSIVE RemovePattern(_, _)
RemovePattern(pat, s) ==
    IF s = <<>> THEN <<>>
    ELSE LET n == MatchLen(pat, s)
         IN  IF n > 0 THEN RemovePattern(pat, SubSeq(s, n + 1, Len(s)))
             ELSE <<Head(s)>> \o RemovePattern(pat, Tail(s))

\* for pattern in FILLER_WORDS: result = re.sub(pattern, "", result, ...)
RECURSIVE RemoveFillers(_, _)
RemoveFillers(i, s) ==
    IF i > Len(FILLER_WORDS) THEN s
    ELSE RemoveFillers(i + 1, RemovePattern(FILLER_WORDS[i], s))

\* re.sub(r"\s+", " ", result)
RECURSIVE CollapseSpaces(_)
CollapseSpaces(s) ==
    IF s = <<>> THEN <<>>
    ELSE IF Head(s).k = "s" /\ Len(s) >= 2 /\ s[2].k = "s"
         THEN CollapseSpaces(Tail(s))
         ELSE <<IF Head(s).k = "s" THEN Sp ELSE Head(s)>> \o CollapseSpaces(Tail(s))

\* The whitespace run at the head of r is followed by a punctuation character
PunctAhead(r) ==
    \E j \in 1..Len(r) :
        /\ r[j].k = "p"
        /\ \A i \in 1..(j - 1) : r[i].k = "s"

\* re.sub(r"\s+([.,!?;:])", r"\1", result)
RECURSIVE SpaceBeforePunct(_)
SpaceBeforePunct(s) ==
    IF s = <<>> THEN <<>>
    ELSE IF Head(s).k = "s" /\ PunctAhead(Tail(s))
         THEN SpaceBeforePunct(Tail(s))
         ELSE <<Head(s)>> \o SpaceBeforePunct(Tail(s))

\* ([.,!?;:])(?=[^\s]) at the head of s
SpaceWanted(s) == Head(s).k = "p" /\ Len(s) >= 2 /\ s[2].k # "s"

\* re.sub(r"([.,!?;:])(?=[^\s])", r"\1 ", result)
RECURSIVE SpaceAfterPunct(_)
SpaceAfterPunct(s) ==
    IF s = <<>> THEN <<>>
    ELSE IF SpaceWanted(s)
         THEN <<Head(s), Sp>> \o SpaceAfterPunct(Tail(s))
         ELSE <<Head(s)>> \o SpaceAfterPunct(Tail(s))

\* result.strip()
RECURSIVE LStrip(_)
LStrip(s) == IF s # <<>> /\ Head(s).k = "s" THEN LStrip(Tail(s)) ELSE s

RECURSIVE RStrip(_)
RStrip(s) ==
    IF s # <<>> /\ s[Len(s)].k = "s" THEN RStrip(SubSeq(s, 1, Len(s) - 1)) ELSE s

Strip(s) == RStrip(LStrip(s))

\* if result: result = result[0].upper() + result[1:]
CapitalizeFirst(s) ==
    IF s # <<>> /\ Head(s).k = "w" THEN <<Cap(Head(s).w)>> \o Tail(s) ELSE s

\* if result and result[-1] not in ".!?": result += "."
EnsureEnding(s) ==
    IF s # <<>> /\ ~(s[Len(s)].k = "p" /\ s[Len(s)].w \in {".", "!", "?"})
    THEN Append(s, P("."))
    ELSE s

\* BasicEditor.edit(text)
BasicEdit(text) ==
    EnsureEnding(CapitalizeFirst(Strip(
        SpaceAfterPunct(SpaceBeforePunct(CollapseSpaces(RemoveFillers(1, text)))))))

\* The texts handed to the editor: every sequence of at most MaxTextLen tokens
\* in which no two words are adjacent (two adjacent words are one word)
EditorAlphabet ==
    { W("hello"), Cap("hello"), W("there"), W("kind"), W("of"), W("actually"),
      Sp, P(","), P(".") }

WellFormed(s) == \A i \in 1..(Len(s) - 1) : ~(s[i].k = "w" /\ s[i + 1].k = "w")

EditorInputs ==
    UNION { { s \in [1..n -> EditorAlphabet] : WellFormed(s) } : n \in 0..MaxTextLen }

\* once = BasicEditor().edit(t)
EditOnce ==
    /\ ed_pc = "idle"
    /\ ed_once' = BasicEdit(ed_t)
    /\ ed_pc' = "once"
    /\ UNCHANGED <<ed_t, ed_twice>>
    /\ UNCHANGED <<hkVars, ctlVars, recVars, tyVars, obsVars, lcVars, plVars, rqVars, aiVars>>

\* twice = BasicEditor().edit(once)
EditTwice ==
    /\ ed_pc = "once"
    /\ ed_twice' = BasicEdit(ed_once)
    /\ ed_pc' = "twice"
    /\ UNCHANGED <<ed_t, ed_once>>
    /\ UNCHANGED <<hkVars, ctlVars, recVars, tyVars, obsVars, lcVars, plVars, rqVars, aiVars>>

InitEditor ==
    /\ \E c \in ComboConfigs : c.mode = "hold" /\ InitProgram(c, "stub")
    /\ PipelineAtRest
    /\ RecorderQueueAtRest
    /\ AiEditorAtRest
    /\ ed_t \in EditorInputs
    /\ ed_once = <<>>
    /\ ed_twice = <<>>
    /\ ed_pc = "idle"

NextEditor == EditOnce \/ EditTwice

SpecEditor == InitEditor /\ [][NextEditor]_vars

-----------------------------------------------------------------------------
(* The processing pipeline: the try body of run_cli.on_deactivate (main.py) *)
(* and of OverlayWindow._process_recording (ui/overlay.py,                  *)
(* ui/overlay_win.py), one stage per step.  pl_calls is the list of the     *)
(* calls the run has made, each with its argument and its result.  The      *)
(* deactivate handler that starts the run executes one statement per step,  *)
(* and one activate handler, started by the hotkey handler in a thread of   *)
(* its own, runs beside it.  The recorder is reduced to what stop()         *)
(* returns.  ui/overlay_win.py imports dictionary.py, voice_commands.py and *)
(* snippets.py: they are described by the specification alone, and are      *)
(* given here one entry each.                                               *)

PipelineFrontends == {"cli", "overlay", "overlay_win"}

\* settings.<stage>.enabled for the four stages, and what create_editor
\* returned: BasicEditor ("basic") or one of the HTTP editors ("ai").  Only
\* ui/overlay_win.py has the dictionary, voice-command and snippet stages.
PipelineSettings(f) ==
    { st \in [dictionary : BOOLEAN, voice_commands : BOOLEAN, ai_editor : BOOLEAN,
              snippets : BOOLEAN, editor : {"basic", "ai"}] :
        /\ f # "overlay_win" => ~st.dictionary /\ ~st.voice_commands /\ ~st.snippets
        /\ st.editor = "ai" => st.ai_editor }

\* At most one stage fails in a run, and only a stage that can: BasicEditor
\* makes no call that fails
FaultSets(st) ==
    {{}} \cup { {g} : g \in { h \in {"dictionary", "voice_commands", "ai_editor", "snippets"} :
                               st[h] /\ (h = "ai_editor" => st.editor = "ai") } }

ShipIt ==
    << W("um"), Sp, W("so"), Sp, W("like"), Sp, W("i"), Sp, W("think"), Sp,
       W("we"), Sp, W("should"), Sp, W("ship"), Sp, W("it") >>
DeleteThat == << W("delete"), Sp, W("that") >>

\* What Transcriber.transcribe returns: "" or the stripped text
Transcripts ==
    { <<>>, ShipIt, DeleteThat, DeleteThat \o <<Sp, W("ship"), Sp, W("hello")>> }

\* What recorder.stop() returns: b"" or WAV bytes
Audio == {"", "wav"}

\* PersonalDictionary.apply with the mapping ship -> deploy
RECURSIVE DictionaryApply(_)
DictionaryApply(text) ==
    IF text = <<>> THEN <<>>
    ELSE <<IF IsWord(Head(text), {"ship"}) THEN W("deploy") ELSE Head(text)>>
         \o DictionaryApply(Tail(text))

\* VoiceCommandProcessor.detect_command with the vocabulary {"delete that"},
\* matched at the head of the text: the command and the text that remains
DetectCommand(text) ==
    IF /\ Len(text) >= 3
       /\ IsWord(text[1], {"delete"})
       /\ text[2] = Sp
       /\ IsWord(text[3], {"that"})
    THEN [cmd |-> "delete_that", rest |-> Strip(SubSeq(text, 4, Len(text)))]
    ELSE [cmd |-> "", rest |-> text]

\* SnippetExpander.expand with the snippet hello -> hello world
RECURSIVE SnippetsExpand(_)
SnippetsExpand(text) ==
    IF text = <<>> THEN <<>>
    ELSE (IF IsWord(Head(text), {"hello"}) THEN <<Head(text), Sp, W("world")>>
          ELSE <<Head(text)>>)
         \o SnippetsExpand(Tail(text))

\* What the model behind an HTTP editor answers
LlmOutputs(text) == { BasicEdit(text), <<Cap("rewritten"), P(".")>> }

\* One entry of the call list
Call(op, arg, out) == [op |-> op, arg |-> arg, out |-> out, cmd |-> "", err |-> "none"]
CommandCall(op, arg, out, cmd) == [Call(op, arg, out) EXCEPT !.cmd = cmd]
Raised(op, arg) == [Call(op, arg, <<>>) EXCEPT !.err = "raised"]
Caught(op, arg, out) == [Call(op, arg, out) EXCEPT !.err = "caught"]

\* Mutant: snippet expansion placed before the AI edit
PcAfter_SnippetsBeforeEdit(pc) ==
    CASE pc = "dictionary" -> "voice"
      [] pc = "voice"      -> "snippets"
      [] pc = "snippets"   -> "edit"
      [] pc = "edit"       -> "type"

\* The stage that follows a stage in the text of _process_recording
PcAfter(pc) ==
    CASE pc = "dictionary" -> "voice"
      [] pc = "voice"      -> "edit"
      [] pc = "edit"       -> "snippets"
      [] pc = "snippets"   -> "type"

\* What a pipeline step leaves alone
PipelineFrame ==
    UNCHANGED <<hkVars, frontend, is_recording, threads, recVars, tyVars, obsVars,
                lcVars, edVars, rqVars, aiVars,
                pl_settings, pl_faults>>

\* The hotkey handler emits Activate: a thread for on_activate is started
ActivateSignal ==
    /\ ~hotkey_active
    /\ threads = <<>>
    /\ hotkey_active' = TRUE
    /\ threads' = <<NewThread("activate")>>
    /\ UNCHANGED <<config, pressed_keys, is_toggled, last_tap_time,
                   in_continuous_mode, now>>
    /\ UNCHANGED <<frontend, is_recording, is_processing, recVars, tyVars, obsVars,
                   lcVars, otherVars>>

\* The hotkey handler emits Deactivate: a thread for on_deactivate is started
DeactivateSignal ==
    /\ hotkey_active
    /\ pl_pc = "idle"
    /\ hotkey_active' = FALSE
    /\ pl_pc' = "d_gate"
    /\ UNCHANGED <<config, pressed_keys, is_toggled, last_tap_time,
                   in_continuous_mode, now>>
    /\ UNCHANGED <<ctlVars, recVars, tyVars, obsVars, lcVars, edVars, rqVars, aiVars>>
    /\ UNCHANGED <<pl_settings, pl_faults, pl_audio, pl_transcript, pl_text,
                   pl_calls, pl_error>>

\* on_activate: the call of recorder.start(), after which the thread ends
RecorderStartCall(i) ==
    /\ At(i, "rs_gate")
    /\ threads' = Remove(i)
    /\ UNCHANGED <<hkVars, frontend, is_recording, is_processing, recVars, tyVars,
                   obsVars, lcVars, otherVars>>

\* on_deactivate: `if not is_recording: return`
PlDGate ==
    /\ pl_pc = "d_gate"
    /\ pl_pc' = (IF DeactivateBlocked THEN "idle" ELSE "d_set1")
    /\ UNCHANGED <<is_processing, pl_audio, pl_transcript, pl_text, pl_calls, pl_error>>
    /\ PipelineFrame

\* on_deactivate: is_recording = False
PlDSet1 ==
    /\ pl_pc = "d_set1"
    /\ is_recording' = FALSE
    /\ pl_pc' = "d_set2"
    /\ UNCHANGED <<hkVars, frontend, is_processing, threads, recVars, tyVars, obsVars,
                   lcVars, edVars, rqVars, aiVars>>
    /\ UNCHANGED <<pl_settings, pl_faults, pl_audio, pl_transcript, pl_text,
                   pl_calls, pl_error>>

\* on_deactivate: is_processing = True, and the run begins
PlDSet2 ==
    /\ pl_pc = "d_set2"
    /\ is_processing' = TRUE
    /\ pl_pc' = "stop"
    /\ pl_audio' = ""
    /\ pl_transcript' = <<>>
    /\ pl_text' = <<>>
    /\ pl_calls' = <<>>
    /\ pl_error' = FALSE
    /\ PipelineFrame

\* audio_data = recorder.stop(); `if not audio_data: return`
PlRecorderStop ==
    /\ pl_pc = "stop"
    /\ \E a \in Audio :
         /\ pl_audio' = a
         /\ pl_pc' = (IF a = "" THEN "finally" ELSE "transcribe")
    /\ pl_calls' = Append(pl_calls, Call("recorder.stop", <<>>, <<>>))
    /\ UNCHANGED <<is_processing, pl_transcript, pl_text, pl_error>>
    /\ PipelineFrame

\* text = transcriber.transcribe(audio_data); `if not text: return`;
\* raw_text = text.  transcribe has a finally clause and no except clause: a
\* failure of load_model or of the model's transcribe call raises into the
\* except clause of the pipeline.
PlTranscribe ==
    /\ pl_pc = "transcribe"
    /\ \/ /\ \E t \in Transcripts :
               /\ pl_transcript' = t
               /\ pl_text' = t
               /\ pl_calls' = Append(pl_calls, Call("transcribe", <<>>, t))
               /\ pl_pc' = (IF t = <<>> THEN "finally" ELSE "dictionary")
          /\ UNCHANGED pl_error
       \/ /\ pl_calls' = Append(pl_calls, Raised("transcribe", <<>>))
          /\ pl_error' = TRUE
          /\ pl_pc' = "finally"
          /\ UNCHANGED <<pl_transcript, pl_text>>
    /\ UNCHANGED <<is_processing, pl_audio>>
    /\ PipelineFrame

\* Mutant: a stage that is switched off still cleans the text up
PlSkip_StillEdits(stage, pc) ==
    /\ pl_pc = pc
    /\ ~pl_settings[stage]
    /\ pl_pc' = PcAfter(pc)
    /\ pl_text' = BasicEdit(pl_text)
    /\ UNCHANGED <<is_processing, pl_audio, pl_transcript, pl_calls, pl_error>>
    /\ PipelineFrame

\* A stage that is switched off, or that the front-end does not have, is
\* stepped over
PlSkip(stage, pc) ==
    /\ pl_pc = pc
    /\ ~pl_settings[stage]
    /\ pl_pc' = PcAfter(pc)
    /\ UNCHANGED <<is_processing, pl_audio, pl_transcript, pl_text, pl_calls, pl_error>>
    /\ PipelineFrame

\* A call inside the try body raises: the except clause prints the error
PlRaise(stage, pc, op) ==
    /\ pl_pc = pc
    /\ pl_settings[stage]
    /\ stage \in pl_faults
    /\ pl_calls' = Append(pl_calls, Raised(op, pl_text))
    /\ pl_error' = TRUE
    /\ pl_pc' = "finally"
    /\ UNCHANGED <<is_processing, pl_audio, pl_transcript, pl_text>>
    /\ PipelineFrame

\* `if self.settings.dictionary.enabled: text = self.dictionary.apply(text)`
PlDictionary ==
    \/ PlSkip("dictionary", "dictionary")
    \/ PlRaise("dictionary", "dictionary", "dictionary.apply")
    \/ /\ pl_pc = "dictionary"
       /\ pl_settings.dictionary
       /\ "dictionary" \notin pl_faults
       /\ pl_text' = DictionaryApply(pl_text)
       /\ pl_calls' = Append(pl_calls,
                             Call("dictionary.apply", pl_text, DictionaryApply(pl_text)))
       /\ pl_pc' = PcAfter("dictionary")
       /\ UNCHANGED <<is_processing, pl_audio, pl_transcript, pl_error>>
       /\ PipelineFrame

\* `if self.settings.voice_commands.enabled:` detect_command, execute_command,
\* and when nothing remains the log entry "[Command: ...]" and `return`
PlVoiceCommands ==
    \/ PlSkip("voice_commands", "voice")
    \/ PlRaise("voice_commands", "voice", "detect_command")
    \/ /\ pl_pc = "voice"
       /\ pl_settings.voice_commands
       /\ "voice_commands" \notin pl_faults
       /\ LET d      == DetectCommand(pl_text)
              detect == CommandCall("detect_command", pl_text, d.rest, d.cmd)
              exec   == CommandCall("execute_command", <<>>, <<>>, d.cmd)
              log    == CommandCall("log", pl_transcript, <<>>, d.cmd)
          IN  /\ pl_calls' = (IF d.cmd = "" THEN Append(pl_calls, detect)
                              ELSE IF d.rest = <<>>
                                   THEN pl_calls \o <<detect, exec, log>>
                                   ELSE pl_calls \o <<detect, exec>>)
              /\ pl_text' = (IF d.cmd # "" /\ d.rest = <<>> THEN pl_text ELSE d.rest)
              /\ pl_pc' = (IF d.cmd # "" /\ d.rest = <<>> THEN "finally"
                           ELSE PcAfter("voice"))
       /\ UNCHANGED <<is_processing, pl_audio, pl_transcript, pl_error>>
       /\ PipelineFrame

\* `if settings.ai_editor.enabled: text = editor.edit(text, ...)`.  An HTTP
\* editor whose request fails returns BasicEditor().edit(text, preset).
PlEdit ==
    \/ PlSkip("ai_editor", "edit")
    \/ /\ pl_pc = "edit"
       /\ pl_settings.ai_editor
       /\ \E out \in (IF pl_settings.editor = "basic" \/ "ai_editor" \in pl_faults
                      THEN {BasicEdit(pl_text)}
                      ELSE LlmOutputs(pl_text)) :
            /\ pl_text' = out
            /\ pl_calls' = Append(pl_calls,
                                  IF "ai_editor" \in pl_faults
                                  THEN Caught("edit", pl_text, out)
                                  ELSE Call("edit", pl_text, out))
       /\ pl_pc' = PcAfter("edit")
       /\ UNCHANGED <<is_processing, pl_audio, pl_transcript, pl_error>>
       /\ PipelineFrame

\* `if self.settings.snippets.enabled: expanded = self.snippets.expand(text)`
PlSnippets ==
    \/ PlSkip("snippets", "snippets")
    \/ PlRaise("snippets", "snippets", "expand")
    \/ /\ pl_pc = "snippets"
       /\ pl_settings.snippets
       /\ "snippets" \notin pl_faults
       /\ pl_text' = SnippetsExpand(pl_text)
       /\ pl_calls' = Append(pl_calls, Call("expand", pl_text, SnippetsExpand(pl_text)))
       /\ pl_pc' = PcAfter("snippets")
       /\ UNCHANGED <<is_processing, pl_audio, pl_transcript, pl_error>>
       /\ PipelineFrame

\* typer.type_text(text); in the overlays _log_transcription(raw_text, ...),
\* and in ui/overlay_win.py set_last_typed_length before it
PlType ==
    /\ pl_pc = "type"
    /\ \/ /\ pl_calls' = pl_calls
                         \o <<Call("type_text", pl_text, <<>>)>>
                         \o (IF frontend = "overlay_win"
                             THEN <<Call("set_last_typed_length", pl_text, <<>>)>> ELSE <<>>)
                         \o (IF frontend # "cli"
                             THEN <<Call("log", pl_transcript, pl_text)>> ELSE <<>>)
          /\ UNCHANGED pl_error
       \* type_text raises: the except clause reports the error
       \/ /\ pl_calls' = Append(pl_calls, Raised("type_text", pl_text))
          /\ pl_error' = TRUE
    /\ pl_pc' = "finally"
    /\ UNCHANGED <<is_processing, pl_audio, pl_transcript, pl_text>>
    /\ PipelineFrame

\* finally: is_processing = False
PlFinally ==
    /\ pl_pc = "finally"
    /\ is_processing' = FALSE
    /\ pl_pc' = "idle"
    /\ UNCHANGED <<pl_audio, pl_transcript, pl_text, pl_calls, pl_error>>
    /\ PipelineFrame

InitPipeline ==
    /\ \E c \in ComboConfigs : \E f \in PipelineFrontends :
         c.mode = "hold" /\ InitProgram(c, f)
    /\ pl_settings \in PipelineSettings(frontend)
    /\ pl_faults \in FaultSets(pl_settings)
    /\ pl_pc = "idle"
    /\ pl_audio = ""
    /\ pl_transcript = <<>>
    /\ pl_text = <<>>
    /\ pl_calls = <<>>
    /\ pl_error = FALSE
    /\ EditorAtRest
    /\ RecorderQueueAtRest
    /\ AiEditorAtRest

NextPipeline ==
    \/ ActivateSignal
    \/ DeactivateSignal
    \/ AGate(1) \/ ASet(1) \/ GateReturn(1) \/ RecorderStartCall(1)
    \/ PlDGate \/ PlDSet1 \/ PlDSet2
    \/ PlRecorderStop \/ PlTranscribe
    \/ PlDictionary \/ PlVoiceCommands \/ PlEdit \/ PlSnippets
    \/ PlType \/ PlFinally

SpecPipeline == InitPipeline /\ [][NextPipeline]_vars

-----------------------------------------------------------------------------
(* create_editor and the HTTP editors (editor.py): which editor the         *)
(* settings give, and one edit() call of it.  The three HTTP editors have   *)
(* the same shape: the prompt is formatted, then the request is made inside *)
(* a try whose except clause returns BasicEditor().edit(text, preset).      *)

AiProviders == {"none", "ollama", "openai", "anthropic"}

\* settings.ai_editor.custom_prompt: None, a template that holds {text}, and a
\* template that holds another replacement field, such as {name}
CustomPrompts == {"", "text", "field"}

AiConfigs ==
    [enabled : BOOLEAN, provider : AiProviders, key : BOOLEAN, custom_prompt : CustomPrompts]

\* create_editor: the class of the editor returned
CreateEditor(cfg) ==
    IF ~cfg.enabled \/ cfg.provider = "none" THEN "basic"
    ELSE IF cfg.provider = "ollama" THEN "ollama"
    ELSE IF cfg.key THEN cfg.provider
    ELSE "basic"

\* What the request does: it answers, or the connection fails, or it times
\* out, or raise_for_status() raises, or the body lacks the expected field
BackendOutcomes == {"ok", "network", "timeout", "status", "body"}

\* prompt_template.format(text=text): str.format raises KeyError on a
\* replacement field other than text
FormatRaises(custom_prompt) == custom_prompt = "field"

Returned(text) == [end |-> "returned", text |-> text]

\* edit(text, preset, custom_prompt) of an HTTP editor; answer is what the
\* model replies when the request succeeds
HttpEdit(text, custom_prompt, backend, answer) ==
    IF FormatRaises(custom_prompt) THEN [end |-> "raised", text |-> <<>>]
    ELSE IF backend = "ok" THEN Returned(answer)
    ELSE Returned(BasicEdit(text))

AiTexts == { <<W("hello")>>, ShipIt, <<W("kind"), Sp, W("of"), Sp, W("there")>> }

AiFrame ==
    UNCHANGED <<hkVars, ctlVars, recVars, tyVars, obsVars, lcVars, plVars, edVars, rqVars>>

\* editor = create_editor(settings.ai_editor, api_keys)
AiCreate ==
    /\ ai_pc = "new"
    /\ ai_kind' = CreateEditor(ai_cfg)
    /\ ai_pc' = "ready"
    /\ UNCHANGED <<ai_cfg, ai_text, ai_backend, ai_result>>
    /\ AiFrame

\* editor.edit(text, preset=..., custom_prompt=settings.ai_editor.custom_prompt)
AiEdit ==
    /\ ai_pc = "ready"
    /\ \E b \in BackendOutcomes : \E answer \in LlmOutputs(ai_text) :
         /\ ai_backend' = b
         /\ ai_result' = (IF ai_kind = "basic" THEN Returned(BasicEdit(ai_text))
                          ELSE HttpEdit(ai_text, ai_cfg.custom_prompt, b, answer))
    /\ ai_pc' = "done"
    /\ UNCHANGED <<ai_cfg, ai_kind, ai_text>>
    /\ AiFrame

InitAiEditor ==
    /\ \E c \in ComboConfigs : c.mode = "hold" /\ InitProgram(c, "stub")
    /\ PipelineAtRest
    /\ EditorAtRest
    /\ RecorderQueueAtRest
    /\ ai_cfg \in AiConfigs
    /\ ai_kind = ""
    /\ ai_text \in AiTexts
    /\ ai_backend = ""
    /\ ai_result = [end |-> "", text |-> <<>>]
    /\ ai_pc = "new"

NextAiEditor == AiCreate \/ AiEdit

SpecAiEditor == InitAiEditor /\ [][NextAiEditor]_vars

-----------------------------------------------------------------------------
(* The recorder's queue: AudioRecorder._audio_callback, start and stop      *)
(* (recorder.py).  The stream calls _audio_callback in a thread of its own, *)
(* one block at a time; a block is its number in arrival order.  stop()     *)
(* runs in the caller's thread, one statement per step.  stream.stop()      *)
(* returns once the callback in progress has returned, and no callback is   *)
(* made after it.                                                           *)

\* The input stream exists and has not been stopped
StreamRunning == rq_pc \in {"recording", "st_clear", "st_stream"}

RecorderFrame ==
    UNCHANGED <<hkVars, ctlVars, recVars, tyVars, obsVars, lcVars, plVars, edVars, aiVars>>

\* AudioRecorder.start(): flag, a new queue, the stream
RqStart ==
    /\ rq_pc \in {"idle", "done"}
    /\ ~rq_is_recording
    /\ rq_is_recording' = TRUE
    /\ rq_queue' = <<>>
    /\ rq_arrived' = 0
    /\ rq_before' = <<>>
    /\ rq_chunks' = <<>>
    /\ rq_pc' = "recording"
    /\ UNCHANGED <<rq_cb, rq_cb_pc>>
    /\ RecorderFrame

\* The stream calls _audio_callback(indata, ...) with the next block
CbInvoke ==
    /\ StreamRunning
    /\ rq_cb_pc = "idle"
    /\ rq_arrived < MaxChunks
    /\ rq_arrived' = rq_arrived + 1
    /\ rq_cb' = rq_arrived + 1
    /\ rq_cb_pc' = "check"
    /\ rq_before' = (IF rq_is_recording THEN Append(rq_before, rq_arrived + 1)
                     ELSE rq_before)
    /\ UNCHANGED <<rq_pc, rq_is_recording, rq_queue, rq_chunks>>
    /\ RecorderFrame

\* _audio_callback: `if self._is_recording:`
CbCheck ==
    /\ rq_cb_pc = "check"
    /\ rq_cb_pc' = (IF rq_is_recording THEN "put" ELSE "idle")
    /\ UNCHANGED <<rq_pc, rq_is_recording, rq_queue, rq_cb, rq_arrived, rq_before,
                   rq_chunks>>
    /\ RecorderFrame

\* _audio_callback: self._audio_queue.put(indata.copy())
CbPut ==
    /\ rq_cb_pc = "put"
    /\ rq_queue' = Append(rq_queue, rq_cb)
    /\ rq_cb_pc' = "idle"
    /\ UNCHANGED <<rq_pc, rq_is_recording, rq_cb, rq_arrived, rq_before, rq_chunks>>
    /\ RecorderFrame

\* stop(): `if not self._is_recording: return b""`
RqStopGate ==
    /\ rq_pc \in {"idle", "recording", "done"}
    /\ rq_pc' = (IF ~rq_is_recording THEN rq_pc ELSE "st_clear")
    /\ rq_chunks' = (IF ~rq_is_recording THEN <<>> ELSE rq_chunks)
    /\ UNCHANGED <<rq_is_recording, rq_queue, rq_cb, rq_cb_pc, rq_arrived, rq_before>>
    /\ RecorderFrame

\* stop(): self._is_recording = False
RqStopClear ==
    /\ rq_pc = "st_clear"
    /\ rq_is_recording' = FALSE
    /\ rq_pc' = "st_stream"
    /\ UNCHANGED <<rq_queue, rq_cb, rq_cb_pc, rq_arrived, rq_before, rq_chunks>>
    /\ RecorderFrame

\* stop(): self._stream.stop(); self._stream.close(); self._stream = None
RqStopStream ==
    /\ rq_pc = "st_stream"
    /\ rq_cb_pc = "idle"
    /\ rq_pc' = "st_drain"
    /\ UNCHANGED <<rq_is_recording, rq_queue, rq_cb, rq_cb_pc, rq_arrived, rq_before,
                   rq_chunks>>
    /\ RecorderFrame

\* stop(): `while not self._audio_queue.empty(): audio_chunks.append(get())`,
\* and the bytes built from audio_chunks
RqStopDrain ==
    /\ rq_pc = "st_drain"
    /\ rq_chunks' = rq_queue
    /\ rq_queue' = <<>>
    /\ rq_pc' = "done"
    /\ UNCHANGED <<rq_is_recording, rq_cb, rq_cb_pc, rq_arrived, rq_before>>
    /\ RecorderFrame

InitRecorder ==
    /\ \E c \in ComboConfigs : c.mode = "hold" /\ InitProgram(c, "stub")
    /\ PipelineAtRest
    /\ EditorAtRest
    /\ RecorderQueueAtRest
    /\ AiEditorAtRest

NextRecorder ==
    \/ RqStart
    \/ CbInvoke \/ CbCheck \/ CbPut
    \/ RqStopGate \/ RqStopClear \/ RqStopStream \/ RqStopDrain

SpecRecorder == InitRecorder /\ [][NextRecorder]_vars

-----------------------------------------------------------------------------
(* Claims about the hotkey state machine, checked under SpecHotkey *)

KeyEventStep == lastEv' \in {"press", "release"}
PressStep    == lastEv' = "press"
ReleaseStep  == lastEv' = "release"

\* The required set goes from not fully held to fully held, or back, in a step
BecomesHeld   == ~IsHotkeyPressed(pressed_keys) /\ IsHotkeyPressed(pressed_keys')
BecomesUnheld == IsHotkeyPressed(pressed_keys) /\ ~IsHotkeyPressed(pressed_keys')

\* C4: in hold mode a key event emits Activate exactly when it is a press that
\* takes the required set from not fully held to fully held, and emits Deactivate
\* exactly when it is a release that takes it from fully held to not fully held;
\* every other event (auto-repeat, extra keys) emits nothing.
C4_HoldEdgeSignals ==
    [][ (config.mode = "hold" /\ KeyEventStep) =>
          /\ (emitted' = "activate")   <=> (PressStep /\ BecomesHeld)
          /\ (emitted' = "deactivate") <=> (ReleaseStep /\ BecomesUnheld) ]_vars

C4_Witness ==
    /\ config.mode = "hold" /\ lastEv = "release" /\ emitted = "deactivate"
    /\ pressed_keys # {}

\* C5: in toggle mode every press that completes the combination after all keys
\* were up emits one signal, Activate when the latest signal was none or
\* Deactivate and Deactivate when it was Activate; a release emits nothing and
\* leaves the toggled flag alone.
C5_ToggleAlternates ==
    [][ (config.mode = "toggle" /\ KeyEventStep) =>
          /\ ReleaseStep => (emitted' = "none" /\ is_toggled' = is_toggled)
          /\ (PressStep /\ BecomesHeld /\ releasedAll) =>
                emitted' = (IF lastSig = "activate" THEN "deactivate" ELSE "activate")
      ]_vars

C5_Witness ==
    /\ config.mode = "toggle" /\ lastEv = "press" /\ emitted = "deactivate"
    /\ ~is_toggled

\* C6: in wispr mode, outside continuous mode, a press that completes the
\* combination 0.4 s or more after the previous such press emits Activate and
\* does not enter continuous mode; while the combination stays held nothing is
\* emitted; the release that breaks the combination emits Deactivate, still
\* outside continuous mode.
C6_WisprSinglePress ==
    [][ (config.mode = "wispr" /\ KeyEventStep) =>
          /\ (PressStep /\ BecomesHeld /\ ~in_continuous_mode
                /\ now - lastEdgeTime >= DoubleTapThreshold) =>
                (emitted' = "activate" /\ ~in_continuous_mode')
          /\ (gesture = "single" /\ IsHotkeyPressed(pressed_keys)
                /\ IsHotkeyPressed(pressed_keys')) =>
                (emitted' = "none" /\ ~in_continuous_mode')
          /\ (ReleaseStep /\ gesture = "single" /\ BecomesUnheld) =>
                (emitted' = "deactivate" /\ ~in_continuous_mode')
      ]_vars

C6_Witness ==
    /\ config.mode = "wispr" /\ gesture = "single" /\ lastEv = "release"
    /\ emitted = "deactivate" /\ ~in_continuous_mode

\* C7: in wispr mode a press that completes the combination less than 0.4 s after
\* the previous one emits Activate and enters continuous mode; no release after
\* it emits Deactivate or leaves continuous mode; the next press that completes
\* the combination emits Deactivate and leaves continuous mode, and that tap
\* emits no second Deactivate on its release.
C7_DoubleTapLatch ==
    [][ (config.mode = "wispr" /\ KeyEventStep) =>
          /\ (PressStep /\ BecomesHeld /\ ~in_continuous_mode
                /\ now - lastEdgeTime < DoubleTapThreshold) =>
                (emitted' = "activate" /\ in_continuous_mode')
          /\ (ReleaseStep /\ gesture = "latch") =>
                (emitted' = "none" /\ in_continuous_mode')
          /\ (PressStep /\ BecomesHeld /\ in_continuous_mode) =>
                (emitted' = "deactivate" /\ ~in_continuous_mode')
          /\ (ReleaseStep /\ gesture = "stop") => emitted' = "none"
      ]_vars

\* C15: the release of a key takes its token out of the pressed set, and a token
\* comes into the pressed set only by a press of a key with that token; so a
\* token whose release was handled, with no press of it handled since, is not in
\* the set.
C15_ReleasedKeyNotHeld ==
    [][ /\ \A key \in HotkeyKeys :
              (ReleaseStep /\ OnRelease(key)) => NormalizeKey(key) \notin pressed_keys'
        /\ \A k \in pressed_keys' \ pressed_keys :
              PressStep /\ \E key \in HotkeyKeys : NormalizeKey(key) = k /\ OnPress(key)
      ]_vars

\* A key was released while another key stays held
C15_Witness ==
    /\ lastEv = "release" /\ pressed_keys = {"cmd"} /\ hotkey_active

\* C28: in every mode a press emits the signal of the mode's press rule
\* exactly when it takes the required set from not fully held to fully held,
\* also when one key of the combination was released and pressed again while
\* the others stayed down.
C28_PressFiresOnSetEdge ==
    [][ PressStep => ((emitted' # "none") <=> BecomesHeld) ]_vars

\* C29: when a release has been handled and no key is held, hotkey_active is
\* false, in every mode.
C29_NoKeysNotActive ==
    [][ (ReleaseStep /\ pressed_keys' = {}) => ~hotkey_active' ]_vars

\* The last key was released in toggle mode, where no release rule clears the
\* flag, after a press had set it
C29_Witness ==
    /\ config.mode = "toggle" /\ is_toggled
    /\ lastEv = "release" /\ pressed_keys = {} /\ ~hotkey_active

\* C30: in wispr mode, while continuous mode is on, no release emits a signal
\* or ends continuous mode; it ends only by a press that completes the
\* combination, which emits Deactivate; and every press that completes the
\* combination in continuous mode ends it, whichever keys were released since
\* it began.
C30_ContinuousEndsAtNextPress ==
    [][ (config.mode = "wispr" /\ KeyEventStep /\ in_continuous_mode) =>
          /\ ReleaseStep => (emitted' = "none" /\ in_continuous_mode')
          /\ ~in_continuous_mode' => (PressStep /\ BecomesHeld /\ emitted' = "deactivate")
          /\ (PressStep /\ BecomesHeld) => (emitted' = "deactivate" /\ ~in_continuous_mode')
      ]_vars

\* Continuous mode was ended by a press that completed the combination
C30_Witness ==
    /\ config.mode = "wispr" /\ gesture = "stop" /\ lastEv = "press"
    /\ emitted = "deactivate" /\ ~in_continuous_mode

\* C36: in every mode the signals a handler emits alternate, beginning with
\* Activate: a key event that emits a signal emits Activate when the latest
\* signal was none or Deactivate, and Deactivate when it was Activate.
C36_SignalsAlternate ==
    [][ (KeyEventStep /\ emitted' # "none") =>
          emitted' = (IF lastSig = "activate" THEN "deactivate" ELSE "activate") ]_vars

-----------------------------------------------------------------------------
(* Claims about the handler's life cycle, checked under SpecLifecycle *)

\* No transient state is left: no key held, no active hotkey, no toggle, no latch
TransientClear ==
    /\ pressed_keys = {}
    /\ ~hotkey_active
    /\ ~is_toggled
    /\ ~in_continuous_mode

\* C16: when stop() returns the pressed set is empty and hotkey_active, the
\* toggle and the continuous-mode flag are false; and the first press that
\* completes the combination after a start() emits Activate, in every mode.
C16_StopClearsTransientState ==
    [][ /\ Stop => TransientClear'
        /\ (lastEv' = "press" /\ BecomesHeld /\ lc_fresh) => emitted' = "activate"
      ]_vars

\* C17: a key event is never classified with a configuration other than the
\* one under which the transient state it meets was accumulated, and never
\* between the stop and the swap of a configuration change.
C17_ConfigChangeIsAtomic ==
    [][ KeyEventStep =>
          /\ TransientClear \/ config = lastEvConfig
          /\ lc_pc \notin {"uc_swap", "uc_swap_restart"} ]_vars

\* C35: start() with a listener in place creates no listener and leaves the
\* pressed set, hotkey_active, the toggle and the continuous-mode flag as
\* they were; stop() with no listener in place leaves no listener and no
\* transient state.
C35_StartStopIdempotent ==
    [][ /\ (Start /\ listener) =>
              UNCHANGED <<listener, lc_fresh, pressed_keys, hotkey_active,
                          is_toggled, in_continuous_mode>>
        /\ (Stop /\ ~listener) => (~listener' /\ TransientClear')
      ]_vars

\* C38: in hold mode, once Activate is the latest signal and the handler
\* holds the combination as pressed and active, every step either emits
\* Deactivate or leaves the handler holding it so: the Deactivate that the
\* release will emit is never lost, whatever stop() or update_config() do.
C38_HoldActivateGetsDeactivate ==
    [][ (/\ config.mode = "hold" /\ lastSig = "activate"
         /\ hotkey_active /\ IsHotkeyPressed(pressed_keys))
        => \/ emitted' = "deactivate"
           \/ hotkey_active' /\ IsHotkeyPressed(pressed_keys') ]_vars

-----------------------------------------------------------------------------
(* Claims about the session controller, checked under Spec and SpecTest *)

\* The controller is in neither Recording nor Processing
Idle == ~is_recording /\ ~is_processing

\* C1: at most one run of the processing pipeline (recorder.stop, transcribe,
\* edit, insertion) is in flight in every reachable state.
C1_OnePipelineInFlight == PipelinesInFlight <= 1

\* C2: no interleaving of the handlers leaves two input streams open: the
\* recorder is started once per session.
C2_OneStartPerSession == OpenStreams <= 1

\* C3: an Activate handler that runs its gate while is_processing is true takes
\* the return branch and changes neither flag nor the recorder; and an Activate
\* is let through the gate only when no pipeline run is in flight.
C3_ActivateIgnoredWhileProcessing ==
    [][ \A i \in 1..MaxThreads :
          AGate(i) =>
             /\ is_processing =>
                   /\ threads'[i].pc = "a_ret"
                   /\ UNCHANGED <<is_recording, is_processing, recVars>>
             /\ ~ActivateBlocked => PipelinesInFlight = 0 ]_vars

\* An Activate was ignored by the gate while a pipeline run is in flight
C3_Witness ==
    /\ is_processing /\ ~is_recording
    /\ \E i \in DOMAIN threads : threads[i].pc = "a_ret"
    /\ \E j \in DOMAIN threads : InPipeline(threads[j])

\* C9: when a pipeline run completes, on whichever exit path, the controller
\* is Idle: neither recording nor processing.
C9_CompletionReturnsToIdle ==
    [][ \A i \in 1..MaxThreads :
          PFinally(i) => (~is_recording' /\ ~is_processing') ]_vars

\* C10: a Deactivate handler never finds the session not recording, and
\* returns, while an Activate emitted before it has still to take effect.
C10_ActivateBeforeDeactivate ==
    [][ \A i \in 1..MaxThreads :
          (DGate(i) /\ DeactivateBlocked) => ~PendingActivateBefore(i) ]_vars

\* C21: the session is in exactly one of Idle, Recording, Processing: the
\* flags is_recording and is_processing are never both true.
C21_OneSessionState == ~(is_recording /\ is_processing)

\* C27: a capture error shows as empty bytes from recorder.stop(): when the
\* stream could not be opened, or no block was delivered, stop() returns b""
\* and the run leaves by the no-audio exit without reaching the transcriber;
\* when that run completes the controller is Idle and the recorder is not
\* recording, so that the next start() passes its test and opens a new stream.
C27_CaptureErrorIsNoAudio ==
    [][ \A i \in 1..MaxThreads :
          /\ (StDrain(i) /\ ~queued) => threads' = StopReturns(i, "empty")
          /\ (PFinally(i) /\ threads[i].audio = "empty") =>
                /\ Idle'
                /\ ~rec_is_recording' ]_vars

\* No block was queued, and the run that followed has taken the no-audio
\* exit: the recorder is at rest and no stream is open
C27_Witness ==
    /\ \E i \in DOMAIN threads : threads[i].pc = "p_finally" /\ threads[i].audio = "empty"
    /\ ~rec_is_recording /\ ~stream /\ ~leaked /\ ~is_recording

\* C31: a Deactivate handler that runs its test while the session is not
\* Recording (Idle or Processing) takes the return branch: it changes neither
\* flag, does not call recorder.stop(), starts no pipeline run, and then ends.
C31_DeactivateIgnoredUnlessRecording ==
    [][ \A i \in 1..MaxThreads :
          /\ (DGate(i) /\ ~is_recording) =>
                /\ threads' = SetPc(i, "d_ret")
                /\ UNCHANGED <<is_recording, is_processing, recVars>>
          /\ (At(i, "d_ret") /\ ThreadStep(i)) =>
                /\ threads' = Remove(i)
                /\ UNCHANGED <<is_recording, is_processing, recVars>> ]_vars

\* A Deactivate was ignored while a pipeline run is in flight
C31_Witness ==
    /\ is_processing /\ ~is_recording
    /\ \E i \in DOMAIN threads : threads[i].pc = "d_ret"
    /\ \E j \in DOMAIN threads : InPipeline(threads[j])

\* C32: an Activate handler that runs its test while the session is Recording
\* is ignored in every front-end: neither by its test nor by any later step
\* does it change a flag, replace the recorder's queue or open a stream.
C32_ActivateIgnoredWhileRecording ==
    [][ \A i \in 1..MaxThreads :
          /\ (AGate(i) /\ is_recording) =>
                UNCHANGED <<is_recording, is_processing, recVars>>
          /\ (i \in DOMAIN threads /\ threads[i].found = "recording" /\ ThreadStep(i)) =>
                /\ UNCHANGED <<is_recording, is_processing>>
                /\ ~RsQueue(i) /\ ~RsOpen(i) /\ ~RsOpenFails(i) ]_vars

\* The CLI's handler passed its test while Recording, and recorder.start()
\* returned at its own test: one stream is open and the thread has ended
C32_Witness ==
    /\ frontend = "cli" /\ is_recording /\ ~is_processing
    /\ rec_is_recording /\ stream /\ ~leaked /\ queued
    /\ \E i \in DOMAIN threads :
          threads[i].found = "recording" /\ threads[i].pc = "rs_gate"

\* C37: in toggle mode, when no handler thread is running, the toggle flag is
\* set exactly when the session is Recording; and a press that completes the
\* combination while the session is Idle and no handler thread is running
\* starts an on_activate handler.
C37_ToggleFollowsSession ==
    /\ []((config.mode = "toggle" /\ threads = <<>>) => (is_toggled <=> is_recording))
    /\ [][ (/\ config.mode = "toggle" /\ threads = <<>> /\ Idle
            /\ ~hotkey_active /\ BecomesHeld
            /\ \E key \in ComboKeys : OnPress(key))
           => (Len(threads') = 1 /\ threads'[1].kind = "A") ]_vars

\* C39: while the session is Recording or Processing, no step of the menu
\* bar's recording test changes the recorder: its flag, its stream and its
\* queue are as the session left them.
C39_RecorderOnlyThroughGate ==
    [][ \A i \in 1..MaxThreads :
          (/\ i \in DOMAIN threads /\ threads[i].kind = "T"
           /\ is_recording \/ is_processing
           /\ ThreadStep(i))
          => UNCHANGED recVars ]_vars
C39_Witness ==
    /\ is_recording /\ ~is_processing /\ rec_is_recording /\ stream /\ queued
    /\ IsHotkeyPressed(pressed_keys)
    /\ \E i \in DOMAIN threads : threads[i].kind = "T" /\ threads[i].pc = "st_clear"

-----------------------------------------------------------------------------
(* Claims about the text inserter, checked under SpecTyper *)

Last(q) == q[Len(q)]
Logged(what) == \E k \in DOMAIN ty_log : ty_log[k] = what

PasteRank(what) ==
    CASE what \in {"get", "get_failed"}         -> 1
      [] what \in {"set", "set_failed"}         -> 2
      [] what \in {"paste", "paste_failed"}     -> 3
      [] what \in {"restore", "restore_failed"} -> 4

\* C24: type_text(text), as every caller calls it, chooses the method by the
\* length of the text alone.  A non-empty text of at most PasteThreshold
\* characters is typed key by key and no clipboard call is made, nor is the
\* clipboard changed, while it is inserted; a longer text is never typed: its
\* clipboard calls are made in the order capture, set, paste shortcut, restore,
\* each at most once, and when no call fails all four have been made when the
\* insertion returns.
C24_MethodByLength ==
    /\ [](ty_method = "auto" /\ ty_text > 0 =>
            IF ty_text <= PasteThreshold
            THEN /\ ty_pc \in {"type_loop", "done", "idle"}
                 /\ ty_log = <<>>
                 /\ (ty_pc = "done" /\ ~ty_raised) => ty_typed = ty_text
            ELSE /\ ty_pc \in {"paste_get", "paste_copy", "paste_key", "paste_finally",
                               "done", "idle"}
                 /\ ty_typed = 0
                 /\ ty_pc # "paste_get" => Len(ty_log) > 0 /\ PasteRank(ty_log[1]) = 1
                 /\ \A i, j \in DOMAIN ty_log :
                       i < j => PasteRank(ty_log[i]) < PasteRank(ty_log[j])
                 /\ (ty_pc = "done" /\ \A i \in DOMAIN ty_log :
                                          ty_log[i] \in {"get", "set", "paste", "restore"})
                       => ty_log = <<"get", "set", "paste", "restore">>)
    /\ [][(ty_method' = "auto" /\ ty_text' \in 1..PasteThreshold /\ ty_pc' # "idle")
             => clipboard' = clipboard]_vars

\* A text one character longer than the threshold has been pasted with all
\* four clipboard calls
C24_Witness ==
    /\ ty_method = "auto" /\ ty_pc = "done" /\ ~ty_raised
    /\ ty_text = PasteThreshold + 1
    /\ ty_log = <<"get", "set", "paste", "restore">>

\* C33: when pyperclip.paste() raises at the start of a paste insertion, the
\* insertion goes on to copy the text and send the paste shortcut, writes
\* nothing to the clipboard afterwards, and, the copy and the shortcut
\* succeeding, returns without an exception with the text on the clipboard
C33_CaptureFailureStillPastes ==
    (Len(ty_log) > 0 /\ ty_log[1] = "get_failed") =>
        /\ ty_pc \in {"paste_copy", "paste_key", "paste_finally", "done", "idle"}
        /\ original_clipboard = "none"
        /\ ~Logged("restore") /\ ~Logged("restore_failed")
        /\ ty_pc = "paste_copy" => ty_log = <<"get_failed">> /\ ~ty_raised
        /\ (ty_pc = "done" /\ ~Logged("set_failed") /\ ~Logged("paste_failed")) =>
              /\ ty_log = <<"get_failed", "set", "paste">>
              /\ clipboard = "text"
              /\ ~ty_raised
C33_Witness ==
    /\ ty_pc = "done" /\ ~ty_raised /\ original_clipboard = "none"
    /\ ty_log = <<"get_failed", "set", "paste">> /\ clipboard = "text"

-----------------------------------------------------------------------------
(* Claims about the processing pipeline, checked under SpecPipeline *)

\* The place of a call in the chain; -1 for a call that is not a stage
Rank(op) ==
    CASE op = "transcribe"       -> 0
      [] op = "dictionary.apply" -> 1
      [] op = "detect_command"   -> 2
      [] op = "edit"             -> 3
      [] op = "expand"           -> 4
      [] op = "type_text"        -> 5
      [] OTHER                   -> -1

\* The stage of rank r is switched on
EnabledRank(r) ==
    CASE r = 1 -> pl_settings.dictionary
      [] r = 2 -> pl_settings.voice_commands
      [] r = 3 -> pl_settings.ai_editor
      [] r = 4 -> pl_settings.snippets
      [] OTHER -> TRUE

\* The call of `op` has been made in this run
Called(op) == \E i \in DOMAIN pl_calls : pl_calls[i].op = op

\* The last call of the chain made before call j
PrevStage(j) ==
    CHOOSE i \in 1..(j - 1) :
        /\ Rank(pl_calls[i].op) >= 0
        /\ \A h \in (i + 1)..(j - 1) : Rank(pl_calls[h].op) < 0

\* A voice command has consumed the whole utterance
CommandConsumedAll ==
    \E i \in DOMAIN pl_calls :
        /\ pl_calls[i].op = "detect_command"
        /\ pl_calls[i].err = "none"
        /\ pl_calls[i].cmd # ""
        /\ pl_calls[i].out = <<>>

\* The run is over: it has reached its finally clause, or left it
RunEnded == pl_pc = "finally" \/ (pl_pc = "idle" /\ pl_calls # <<>>)

\* C11: an error inside a stage does not abort the chain: the stage's output
\* is its input, the stages after it that are switched on still run, and the
\* text is still inserted (unless a voice command then consumes all of it).
C11_StageErrorDoesNotAbort ==
    \A i \in DOMAIN pl_calls :
        (pl_calls[i].err # "none" /\ Rank(pl_calls[i].op) \in 1..4) =>
            /\ pl_calls[i].err = "caught"
            /\ pl_calls[i].out = pl_calls[i].arg
            /\ (RunEnded /\ ~CommandConsumedAll) =>
                  /\ Called("type_text")
                  /\ \A r \in (Rank(pl_calls[i].op) + 1)..4 :
                        EnabledRank(r) =>
                           \E j \in DOMAIN pl_calls : j > i /\ Rank(pl_calls[j].op) = r

\* C12: the stages that are switched on run in the order dictionary, voice
\* commands, AI edit, snippets, insertion: every stage call comes later in that
\* order than the stage call before it, receives that call's output, and no
\* stage that is switched on has been passed over between the two.
C12_FixedStageOrder ==
    \A j \in DOMAIN pl_calls :
        Rank(pl_calls[j].op) >= 1 =>
            LET i == PrevStage(j)
            IN  /\ \E h \in 1..(j - 1) : pl_calls[h].op = "transcribe"
                /\ Rank(pl_calls[i].op) < Rank(pl_calls[j].op)
                /\ pl_calls[j].arg = pl_calls[i].out
                /\ \A r \in (Rank(pl_calls[i].op) + 1)..(Rank(pl_calls[j].op) - 1) :
                      ~EnabledRank(r)

\* All four stages were switched on and ran, each changing the text, and the
\* text was inserted
C12_Witness ==
    /\ pl_pc = "finally"
    /\ \A op \in {"dictionary.apply", "detect_command", "edit", "expand", "type_text"} :
          Called(op)
    /\ \A i \in DOMAIN pl_calls :
          pl_calls[i].op \in {"dictionary.apply", "detect_command", "edit", "expand"}
             => pl_calls[i].out # pl_calls[i].arg

\* C13: when a detected command consumes the whole utterance, the executor is
\* called with that command, neither the AI edit nor the snippet expansion nor
\* the insertion is called, the run is logged as a command, and when the run
\* completes the controller is Idle.
C13_CommandConsumesUtterance ==
    [][ (PlFinally /\ CommandConsumedAll) =>
          /\ \E i \in DOMAIN pl_calls :
                /\ pl_calls[i].op = "detect_command"
                /\ pl_calls[i].cmd # ""
                /\ \E j \in DOMAIN pl_calls :
                      /\ j > i
                      /\ pl_calls[j].op = "execute_command"
                      /\ pl_calls[j].cmd = pl_calls[i].cmd
                /\ \E j \in DOMAIN pl_calls :
                      /\ j > i
                      /\ pl_calls[j].op = "log"
                      /\ pl_calls[j].cmd = pl_calls[i].cmd
          /\ ~Called("edit") /\ ~Called("expand") /\ ~Called("type_text")
          /\ Idle' ]_vars

\* The transcript "delete that" has been consumed by its command, and the run
\* has completed
C13_Witness ==
    /\ pl_pc = "idle"
    /\ pl_transcript = DeleteThat
    /\ CommandConsumedAll
    /\ Called("execute_command")
    /\ ~Called("type_text")

\* C14: when recorder.stop() returns no bytes the transcriber is not called;
\* when the transcript is empty no edit, insertion or log call is made; in
\* both cases the run is not an error and the controller is Idle when it
\* completes.
C14_EmptyShortCircuits ==
    [][ /\ (PlFinally /\ pl_audio = "") =>
              /\ pl_calls = <<Call("recorder.stop", <<>>, <<>>)>>
              /\ ~pl_error
              /\ Idle'
        /\ (PlFinally /\ Last(pl_calls) = Call("transcribe", <<>>, <<>>)) =>
              /\ pl_calls = <<Call("recorder.stop", <<>>, <<>>),
                              Call("transcribe", <<>>, <<>>)>>
              /\ ~pl_error
              /\ Idle' ]_vars

\* A run with an empty transcript has completed, without an error
C14_Witness ==
    /\ pl_pc = "idle"
    /\ pl_audio = "wav"
    /\ Called("transcribe")
    /\ pl_transcript = <<>>
    /\ ~pl_error

\* "I think we should ship it."
ShipItCleaned ==
    << Cap("i"), Sp, W("think"), Sp, W("we"), Sp, W("should"), Sp, W("ship"),
       Sp, W("it"), P(".") >>

\* C18: with AI editing disabled and the transcript "um so like i think we
\* should ship it", the text is inserted exactly once, as "I think we should
\* ship it.".
C18_ShipItEndToEnd ==
    ( /\ RunEnded
      /\ ~pl_settings.ai_editor
      /\ ~pl_settings.dictionary /\ ~pl_settings.voice_commands /\ ~pl_settings.snippets
      /\ pl_transcript = ShipIt )
    => /\ Cardinality({ i \in DOMAIN pl_calls : pl_calls[i].op = "type_text" }) = 1
       /\ \A i \in DOMAIN pl_calls :
             pl_calls[i].op = "type_text" => pl_calls[i].arg = ShipItCleaned

\* The transcript has been inserted once by the CLI with AI editing disabled
C18_Witness ==
    /\ frontend = "cli"
    /\ pl_pc = "idle"
    /\ ~pl_settings.ai_editor
    /\ pl_transcript = ShipIt
    /\ Cardinality({ i \in DOMAIN pl_calls : pl_calls[i].op = "type_text" }) = 1

\* The call `op` of this run raised
RaisedIn(op) == \E i \in DOMAIN pl_calls : pl_calls[i].op = op /\ pl_calls[i].err = "raised"

\* C25: a failure of the transcriber is handled as an empty transcript is: no
\* stage, no insertion and no log call is made in the run, and the controller
\* is Idle when the run completes.
C25_TranscriberFailureIsEmpty ==
    [][ (PlFinally /\ RaisedIn("transcribe")) =>
          /\ pl_calls = <<Call("recorder.stop", <<>>, <<>>), Raised("transcribe", <<>>)>>
          /\ pl_text = <<>>
          /\ Idle' ]_vars

\* A run whose transcription failed has completed without any stage call
C25_Witness ==
    /\ pl_pc = "idle"
    /\ ~is_processing
    /\ pl_audio = "wav"
    /\ Last(pl_calls) = Raised("transcribe", <<>>)

\* C26: when the insertion fails the failure is reported, and when the run
\* completes the controller is Idle, neither Recording nor Processing, so that
\* the next Activate passes the gate and starts a recording.
C26_InsertionFailureReturnsToIdle ==
    [][ (PlFinally /\ RaisedIn("type_text")) =>
          /\ pl_error
          /\ Idle'
          /\ ~ActivateBlocked' ]_vars

\* A run whose insertion failed has completed: the error was reported and
\* is_processing is cleared
C26_Witness ==
    /\ pl_pc = "idle"
    /\ ~is_processing
    /\ pl_error
    /\ Last(pl_calls).op = "type_text"
    /\ Last(pl_calls).err = "raised"

\* C34: a stage whose own flag is off is stepped over with the text and the
\* call list as they were, whatever the other flags are, and a stage whose
\* flag is on is not stepped over; with all four flags off the text given to
\* type_text is the transcript
C34_DisabledStagesPassThrough ==
    /\ [](\A k \in DOMAIN pl_calls :
            (/\ pl_calls[k].op = "type_text"
             /\ \A g \in {"dictionary", "voice_commands", "ai_editor", "snippets"} :
                   ~pl_settings[g])
            => pl_calls[k].arg = pl_transcript)
    /\ [][ \A pc \in {"dictionary", "voice", "edit", "snippets"} :
            pl_pc = pc =>
               IF pl_settings[CASE pc = "dictionary" -> "dictionary"
                                [] pc = "voice"      -> "voice_commands"
                                [] pc = "edit"       -> "ai_editor"
                                [] pc = "snippets"   -> "snippets"]
               THEN pl_pc' = pc \/ pl_calls' # pl_calls
               ELSE /\ pl_pc' \in {pc, PcAfter(pc)}
                    /\ UNCHANGED <<pl_text, pl_calls, pl_transcript, pl_error>> ]_vars
C34_Witness ==
    /\ frontend = "overlay_win"
    /\ \A g \in {"dictionary", "voice_commands", "ai_editor", "snippets"} : ~pl_settings[g]
    /\ pl_pc = "finally" /\ ~pl_error
    /\ pl_transcript = DeleteThat \o <<Sp, W("ship"), Sp, W("hello")>>
    /\ \E k \in DOMAIN pl_calls : pl_calls[k] = Call("type_text", pl_transcript, <<>>)

-----------------------------------------------------------------------------
(* Claims about the rule-based editor, checked under SpecEditor *)

\* C19: the rule-based editor is idempotent on its own output: for every text
\* t, "Hello there." included, edit(edit(t)) equals edit(t).
C19_EditIsIdempotent == ed_pc = "twice" => ed_twice = ed_once

\* The already-cleaned sentence "Hello there." has been edited twice
C19_Witness ==
    /\ ed_pc = "twice"
    /\ ed_t = <<Cap("hello"), Sp, W("there"), P(".")>>
    /\ ed_twice = ed_t

-----------------------------------------------------------------------------
(* Claims about the recorder's queue, checked under SpecRecorder *)

\* C20: what stop() returns is built from exactly the blocks handed to the
\* callback between start() and the stop signal (the clearing of the flag),
\* in arrival order: none of them is dropped, and no later block is included.
C20_StopReturnsExactlyTheRecording == rq_pc = "done" => rq_chunks = rq_before

\* stop() has returned blocks, while a block that arrived after the stop
\* signal was left out
C20_Witness ==
    /\ rq_pc = "done"
    /\ rq_chunks # <<>>
    /\ rq_chunks = rq_before
    /\ rq_arrived > Len(rq_before)

-----------------------------------------------------------------------------
(* Claims about the AI editor, checked under SpecAiEditor *)

BackendFailed == ai_kind \notin {"", "basic"} /\ ai_backend \notin {"", "ok"}

CredentialMissing ==
    ai_cfg.enabled /\ ai_cfg.provider \in {"openai", "anthropic"} /\ ~ai_cfg.key

\* C22: edit() never raises to its caller, and when the backend fails or the
\* credential is missing it returns what the rule-based editor returns on the
\* same text.
C22_EditNeverRaises ==
    ai_pc = "done" =>
        /\ ai_result.end = "returned"
        /\ (BackendFailed \/ CredentialMissing) => ai_result.text = BasicEdit(ai_text)

\* A failed request whose except clause returned the rule-based result
C22_Witness ==
    /\ ai_pc = "done"
    /\ BackendFailed
    /\ ai_result = Returned(BasicEdit(ai_text))
    /\ ai_result.text # ai_text


-----------------------------------------------------------------------------
(* Claims about the key normalizer, checked under SpecKeys *)

\* The family of a physical modifier key, "" for any other key
Family(key) ==
    LET n == IF key.hasName THEN key.name ELSE StripKeyPrefix(key.str) IN
    IF n \in {"cmd", "cmd_l", "cmd_r"} THEN "cmd"
    ELSE IF n \in {"ctrl", "ctrl_l", "ctrl_r"} THEN "ctrl"
    ELSE IF n \in {"shift", "shift_l", "shift_r"} THEN "shift"
    ELSE IF n \in {"alt", "alt_l", "alt_r", "option"} THEN "alt"
    ELSE ""

\* C23: every left or right variant of a modifier is recorded as its family's
\* canonical token, in every shape of the key event, so that pressing any
\* variant of the configured modifier while the key is held completes the
\* combination.
C23_VariantsNormalized ==
    [][\A key \in ModifierKeys :
         OnPress(key) =>
            /\ Family(key) \in pressed_keys'
            /\ (Family(key) = config.modifier1 /\ config.key \in pressed_keys)
                  => IsHotkeyPressed(pressed_keys')]_vars

=============================================================================
